---------------------------- MODULE Spec2Model ----------------------------
(***************************************************************************)
(* A model of kdp/processor.py: the feature-space normaliser               *)
(* (FeatureSpaceConverter) and the preprocessing-model orchestrator        *)
(* (PreprocessingModel): construction, the thread-pool scheduler, the      *)
(* per-feature pipeline builders, the output fusion and the cleanup.       *)
(*                                                                         *)
(* Conventions.                                                            *)
(*   - A Python dict is a sequence of <<key, value>> pairs in insertion    *)
(*     order (Dict* operators): iteration order is part of the state.      *)
(*   - None / a missing attribute is the empty sequence, a present value v *)
(*     is <<v>> (None, Some).                                              *)
(*   - A Python str that the code converts (str.upper) is a tuple of       *)
(*     one-character strings; names and keys that are only compared are    *)
(*     TLA+ strings.                                                       *)
(*   - A tensor handle carries the chain of layers that built it, its      *)
(*     per-sample shape (the batch axis left out) and the placeholders it  *)
(*     was built from.                                                     *)
(***************************************************************************)
EXTENDS Integers, Sequences, FiniteSets, TLC

(***************************************************************************)
(* Bounds of the model.                                                    *)
(***************************************************************************)
\* the largest number of declared features
MaxFeatures == 2
\* the largest vocabulary of a categorical feature
MaxVocab == 2

None == << >>
Some(v) == << v >>
IsNone(o) == o = << >>
IsSome(o) == o # << >>
TheVal(o) == o[1]

(***************************************************************************)
(* Python dict: insertion-ordered mapping.                                 *)
(***************************************************************************)
EmptyDict == << >>
DictKeys(d) == [i \in 1..Len(d) |-> d[i][1]]
DictValues(d) == [i \in 1..Len(d) |-> d[i][2]]
DictKeySet(d) == {d[i][1] : i \in 1..Len(d)}
DictHas(d, k) == \E i \in 1..Len(d) : d[i][1] = k
DictGet(d, k) == d[CHOOSE i \in 1..Len(d) : d[i][1] = k][2]
\* d[k] = v: a present key keeps its place, a new key goes last
DictSet(d, k, v) ==
    IF DictHas(d, k)
    THEN [i \in 1..Len(d) |-> IF d[i][1] = k THEN <<k, v>> ELSE d[i]]
    ELSE Append(d, <<k, v>>)

SeqToSet(s) == {s[i] : i \in 1..Len(s)}
InSeq(x, s) == \E i \in 1..Len(s) : s[i] = x

\* keyword arguments: a function from a set of keyword names
EmptyKw == [k \in {} |-> 0]
KwHas(kw, k) == k \in DOMAIN kw
KwGet(kw, k, default) == IF k \in DOMAIN kw THEN kw[k] ELSE default

(***************************************************************************)
(* Exceptions: the type, the key of a KeyError (a tuple), the feature name *)
(* the message text contains (None when it names no feature) and the       *)
(* feature whose processing raised it, which tells two exception objects   *)
(* apart.                                                                  *)
(***************************************************************************)
Exc(type, key, feature, origin) ==
    [type |-> type, key |-> key, feature |-> feature, origin |-> origin]

(***************************************************************************)
(* str.upper() on a tuple of characters.                                   *)
(***************************************************************************)
LowerChars == <<"a","b","c","d","e","f","g","h","i","j","k","l","m",
                "n","o","p","q","r","s","t","u","v","w","x","y","z">>
UpperChars == <<"A","B","C","D","E","F","G","H","I","J","K","L","M",
                "N","O","P","Q","R","S","T","U","V","W","X","Y","Z">>
UpperChar(c) ==
    IF \E i \in 1..Len(LowerChars) : LowerChars[i] = c
    THEN UpperChars[CHOOSE i \in 1..Len(LowerChars) : LowerChars[i] = c]
    ELSE c
StrUpper(s) == [i \in 1..Len(s) |-> UpperChar(s[i])]

(***************************************************************************)
(* FeatureType: the members processor.py refers to, and their names        *)
(* (FeatureType[NAME] looks a member up by name).                          *)
(***************************************************************************)
NumericTypes == {"FLOAT", "FLOAT_NORMALIZED", "FLOAT_RESCALED", "FLOAT_DISCRETIZED"}
CategoricalTypes == {"INTEGER_CATEGORICAL", "STRING_CATEGORICAL"}
FeatureType == NumericTypes \cup CategoricalTypes \cup {"TEXT", "DATE"}
FeatureTypeName(t) ==
    CASE t = "FLOAT" -> <<"F","L","O","A","T">>
      [] t = "FLOAT_NORMALIZED" ->
            <<"F","L","O","A","T","_","N","O","R","M","A","L","I","Z","E","D">>
      [] t = "FLOAT_RESCALED" ->
            <<"F","L","O","A","T","_","R","E","S","C","A","L","E","D">>
      [] t = "FLOAT_DISCRETIZED" ->
            <<"F","L","O","A","T","_","D","I","S","C","R","E","T","I","Z","E","D">>
      [] t = "INTEGER_CATEGORICAL" ->
            <<"I","N","T","E","G","E","R","_","C","A","T","E","G","O","R","I","C","A","L">>
      [] t = "STRING_CATEGORICAL" ->
            <<"S","T","R","I","N","G","_","C","A","T","E","G","O","R","I","C","A","L">>
      [] t = "TEXT" -> <<"T","E","X","T">>
      [] t = "DATE" -> <<"D","A","T","E">>
\* FeatureType[s]: the member named s, or a KeyError on s
FeatureTypeLookupOk(s) == \E t \in FeatureType : FeatureTypeName(t) = s
FeatureTypeLookup(s) == CHOOSE t \in FeatureType : FeatureTypeName(t) = s

(***************************************************************************)
(* Feature declarations (the values of the features_specs argument) and    *)
(* descriptors (the Feature objects of the normalised feature space).      *)
(*   form "instance": a NumericalFeature / CategoricalFeature /            *)
(*                    TextFeature / DateFeature object                     *)
(*   form "Feature":  a plain Feature object carrying custom steps         *)
(*   form "str":      a type string                                        *)
(*   form "enum":     a FeatureType member                                 *)
(*   form "other":    any other object                                     *)
(***************************************************************************)
Decl(form, str, cls, ftype, prep, kw, enc) ==
    [form |-> form, str |-> str, cls |-> cls, feature_type |-> ftype,
     preprocessors |-> prep, kwargs |-> kw, category_encoding |-> enc]
StrDecl(s) == Decl("str", s, "", "", << >>, EmptyKw, "")
EnumDecl(t) == Decl("enum", << >>, "", t, << >>, EmptyKw, "")
OtherDecl == Decl("other", << >>, "", "", << >>, EmptyKw, "")
InstanceDecl(cls, t, prep, kw, enc) == Decl("instance", << >>, cls, t, prep, kw, enc)
CustomDecl(t, prep, kw) == Decl("Feature", << >>, "Feature", t, prep, kw, "")

Descriptor(cls, ftype, prep, kw, enc) ==
    [cls |-> cls, feature_type |-> ftype, preprocessors |-> prep,
     kwargs |-> kw, category_encoding |-> enc]

\* the category encoding of a CategoricalFeature built from a bare type tag
DefaultCategoryEncoding == "EMBEDDING"


(***************************************************************************)
(* FeatureSpaceConverter._init_features_specs, one declaration.            *)
(***************************************************************************)
\* isinstance(spec, Feature): the four feature classes derive from Feature
IsFeatureObject(spec) == spec.form \in {"instance", "Feature"}

\* the class a type tag is built as (lines 83-95); "" when none matches
ClassOfType(t) ==
    IF t \in NumericTypes THEN "NumericalFeature"
    ELSE IF t \in CategoricalTypes THEN "CategoricalFeature"
    ELSE IF t = "TEXT" THEN "TextFeature"
    ELSE IF t = "DATE" THEN "DateFeature"
    ELSE ""

\* a feature object built from (name, feature_type) alone
NewFeature(cls, t) ==
    Descriptor(cls, t, << >>, EmptyKw,
               IF cls = "CategoricalFeature" THEN DefaultCategoryEncoding ELSE "")

\* the type tag of a declaration that is no typed instance (lines 76-80):
\* None when FeatureType[spec.upper()] raises
ResolveFeatureType(spec) ==
    IF spec.form = "Feature" THEN Some(spec.feature_type)
    ELSE IF spec.form = "str"
         THEN IF FeatureTypeLookupOk(StrUpper(spec.str))
              THEN Some(FeatureTypeLookup(StrUpper(spec.str)))
              ELSE None
    ELSE Some(spec.feature_type)

\* the outcome for one (name, spec): [error, instance]
ConvertOne(name, spec) ==
    IF spec.form = "instance"
    THEN [error |-> None,
          instance |-> Descriptor(spec.cls, spec.feature_type, spec.preprocessors,
                                  spec.kwargs, spec.category_encoding)]
    ELSE LET ft == ResolveFeatureType(spec) IN
         IF IsNone(ft)
         THEN [error |-> Some(Exc("KeyError", StrUpper(spec.str), None, name)),
               instance |-> NewFeature("", "")]
         ELSE IF ClassOfType(TheVal(ft)) = ""
         THEN [error |-> Some(Exc("ValueError", <<"Unsupported feature type">>,
                                  Some(name), name)),
               instance |-> NewFeature("", "")]
         ELSE LET fresh == NewFeature(ClassOfType(TheVal(ft)), TheVal(ft)) IN
              [error |-> None,
               instance |->
                   IF IsFeatureObject(spec)
                   THEN [fresh EXCEPT !.preprocessors = spec.preprocessors,
                                      !.kwargs = spec.kwargs]
                   ELSE fresh]

\* the state of a converter: the feature space and the four name lists
NewConverter ==
    [error |-> None, features_space |-> EmptyDict, numeric_features |-> << >>,
     categorical_features |-> << >>, text_features |-> << >>, date_features |-> << >>]

\* a faulty variant of Categorize: the converter as it was before dates were
\* listed, a DateFeature goes to no list
CategorizeWithoutDates(fsc, name, inst) ==
    LET listed ==
            IF inst.cls = "NumericalFeature"
            THEN [fsc EXCEPT !.numeric_features = Append(@, name)]
            ELSE IF inst.cls = "CategoricalFeature"
            THEN [fsc EXCEPT !.categorical_features = Append(@, name)]
            ELSE IF inst.cls = "TextFeature"
            THEN [fsc EXCEPT !.text_features = Append(@, name)]
            ELSE fsc
    IN [listed EXCEPT !.features_space = DictSet(@, name, inst)]

\* lines 105-116: the name goes to the list of the instance's class
Categorize(fsc, name, inst) ==
    LET listed ==
            IF inst.cls = "NumericalFeature"
            THEN [fsc EXCEPT !.numeric_features = Append(@, name)]
            ELSE IF inst.cls = "CategoricalFeature"
            THEN [fsc EXCEPT !.categorical_features = Append(@, name)]
            ELSE IF inst.cls = "TextFeature"
            THEN [fsc EXCEPT !.text_features = Append(@, name)]
            ELSE IF inst.cls = "DateFeature"
            THEN [fsc EXCEPT !.date_features = Append(@, name)]
            ELSE fsc
    IN [listed EXCEPT !.features_space = DictSet(@, name, inst)]

\* the loop of _init_features_specs over features_specs.items(), from entry i:
\* the first declaration that raises ends it
RECURSIVE ConvertFrom(_, _, _)
ConvertFrom(specs, i, fsc) ==
    IF i > Len(specs) THEN fsc
    ELSE LET one == ConvertOne(specs[i][1], specs[i][2]) IN
         IF IsSome(one.error)
         THEN [fsc EXCEPT !.error = one.error]
         ELSE ConvertFrom(specs, i + 1, Categorize(fsc, specs[i][1], one.instance))

ConvertFeaturesSpecs(specs) == ConvertFrom(specs, 1, NewConverter)

(***************************************************************************)
(* Tensor handles, layers and FeaturePreprocessor.chain.                   *)
(***************************************************************************)
\* tf.keras.Input(shape=(1,), name=feature_name, dtype=dtype): gen tells the
\* placeholders created under one name apart
Placeholder(name, dtype, gen) == [name |-> name, dtype |-> dtype, gen |-> gen]

\* one processing step: the layer class, its name parts and its arguments
Layer(cls, prefix, feature, args) ==
    [layer |-> cls, name |-> <<prefix, feature>>, args |-> args]

RECURSIVE Product(_)
Product(shape) == IF shape = << >> THEN 1 ELSE Head(shape) * Product(Tail(shape))

\* the per-sample output shape of a layer applied to a tensor of shape s
LayerShape(l, s) ==
    CASE l.layer = "CategoryEncoding" ->
            IF s # << >> /\ s[Len(s)] = 1
            THEN [s EXCEPT ![Len(s)] = l.args.num_tokens]
            ELSE Append(s, l.args.num_tokens)
      [] l.layer = "Embedding" -> Append(s, l.args.output_dim)
      [] l.layer = "Flatten" -> << Product(s) >>
      [] l.layer = "TextVectorization" -> << l.args.output_sequence_length >>
      [] l.layer = "HashedCrossing" -> << 1 >>
      [] l.layer = "date_parsing" -> << 4 >>
      [] l.layer = "date_encoding" -> << 8 >>
      [] l.layer = "date_season" -> [s EXCEPT ![Len(s)] = @ + 4]
      [] OTHER -> s

\* the dtype a layer gives its output, given the dtype of its input
LayerDtype(l, d) ==
    CASE l.layer \in {"Normalization", "Rescaling", "CategoryEncoding", "Embedding",
                      "cast_to_float32", "date_encoding", "date_season"} -> "float32"
      [] l.layer \in {"Discretization", "StringLookup", "IntegerLookup",
                      "TextVectorization", "HashedCrossing"} -> "int64"
      [] l.layer = "date_parsing" -> "int32"
      [] OTHER -> d

RECURSIVE ChainShape(_, _, _)
ChainShape(layers, i, s) ==
    IF i > Len(layers) THEN s ELSE ChainShape(layers, i + 1, LayerShape(layers[i], s))

RECURSIVE ChainDtype(_, _, _)
ChainDtype(layers, i, d) ==
    IF i > Len(layers) THEN d ELSE ChainDtype(layers, i + 1, LayerDtype(layers[i], d))

\* preprocessor.chain(input_layer=...): the steps applied, in order, to the
\* placeholder(s); every placeholder has per-sample shape (1,)
Chain(layers, placeholders) ==
    [layers |-> layers,
     shape |-> ChainShape(layers, 1, << 1 >>),
     dtype |-> ChainDtype(layers, 1, placeholders[1].dtype),
     inputs |-> placeholders,
     parts |-> << >>]

NoHandle == Chain(<< >>, << Placeholder("", "", 0) >>)

\* CategoricalFeature._embedding_size_rule(nr_categories): the embedding
\* width when no embedding_size is configured
EmbeddingSizeRule(nr_categories) ==
    IF nr_categories <= 2 THEN 2
    ELSE IF nr_categories <= 4 THEN 3
    ELSE 4

(***************************************************************************)
(* The per-feature pipeline builders.  Each gives                          *)
(*   [error, map, handle, kwargs]:                                         *)
(* the exception raised (None when it returns), the output map written     *)
(* ("outputs" or "outputs_categorical"), the handle stored under the       *)
(* feature name and the feature's kwargs mapping after the call.           *)
(***************************************************************************)
Raised(e, kw) == [error |-> Some(e), map |-> "", handle |-> NoHandle, kwargs |-> kw]
\* the kwargs mapping of a declared feature, which a builder that raises
\* before it reads the descriptor leaves as it is
KwargsOf(specs, feature_name) ==
    IF DictHas(specs, feature_name) THEN DictGet(specs, feature_name).kwargs ELSE EmptyKw
Built(map, h, kw) == [error |-> None, map |-> map, handle |-> h, kwargs |-> kw]

\* _add_custom_steps: one step per custom preprocessor, with the feature's kwargs
CustomSteps(feature, feature_name) ==
    [i \in 1..Len(feature.preprocessors) |->
        Layer(feature.preprocessors[i], feature.preprocessors[i], feature_name,
              feature.kwargs)]

\* a faulty variant of NumericDefaultSteps: only FLOAT_NORMALIZED is normalised,
\* a feature of another type gets no step
NumericDefaultStepsNormalizedOnly(feature, feature_name, mean, variance) ==
    IF feature.feature_type = "FLOAT_NORMALIZED"
    THEN << Layer("Normalization", "norm", feature_name,
                  [mean |-> mean, variance |-> variance]) >>
    ELSE IF feature.feature_type = "FLOAT_RESCALED"
    THEN << Layer("Rescaling", "rescale", feature_name,
                  [scale |-> KwGet(feature.kwargs, "scale", 1)]) >>
    ELSE << >>

\* the default steps of a numeric feature (lines 502-548)
NumericDefaultSteps(feature, feature_name, mean, variance) ==
    IF feature.feature_type = "FLOAT_NORMALIZED"
    THEN << Layer("Normalization", "norm", feature_name,
                  [mean |-> mean, variance |-> variance]) >>
    ELSE IF feature.feature_type = "FLOAT_RESCALED"
    THEN << Layer("Rescaling", "rescale", feature_name,
                  [scale |-> KwGet(feature.kwargs, "scale", 1)]) >>
    ELSE IF feature.feature_type = "FLOAT_DISCRETIZED"
    THEN << Layer("Discretization", "discretize", feature_name, feature.kwargs),
            Layer("CategoryEncoding", "one_hot", feature_name,
                  [num_tokens |-> Len(feature.kwargs["bin_boundaries"]) + 1,
                   output_mode |-> "one_hot"]),
            Layer("cast_to_float32", "cast_to_float", feature_name, EmptyKw) >>
    ELSE << Layer("Normalization", "norm", feature_name,
                  [mean |-> mean, variance |-> variance]) >>

\* a faulty variant of AddPipelineNumeric: stats.get("var", 1) in place of
\* stats["var"], a missing variance is replaced by a default
AddPipelineNumericDefaultingVar(specs, feature_name, input_layer, stats) ==
    IF "mean" \notin DOMAIN stats
    THEN Raised(Exc("KeyError", <<"mean">>, None, feature_name),
                KwargsOf(specs, feature_name))
    ELSE IF ~DictHas(specs, feature_name)
    THEN Raised(Exc("KeyError", <<feature_name>>, None, feature_name), EmptyKw)
    ELSE LET feature == DictGet(specs, feature_name) IN
         IF feature.preprocessors # << >>
         THEN Built("outputs", Chain(CustomSteps(feature, feature_name), <<input_layer>>),
                    feature.kwargs)
         ELSE Built("outputs",
                    Chain(NumericDefaultSteps(feature, feature_name, stats["mean"],
                                              KwGet(stats, "var", 1)),
                          <<input_layer>>),
                    feature.kwargs)

\* _add_pipeline_numeric
AddPipelineNumeric(specs, feature_name, input_layer, stats) ==
    IF "mean" \notin DOMAIN stats
    THEN Raised(Exc("KeyError", <<"mean">>, None, feature_name),
                KwargsOf(specs, feature_name))
    ELSE IF "var" \notin DOMAIN stats
    THEN Raised(Exc("KeyError", <<"var">>, None, feature_name),
                KwargsOf(specs, feature_name))
    ELSE IF ~DictHas(specs, feature_name)
    THEN Raised(Exc("KeyError", <<feature_name>>, None, feature_name), EmptyKw)
    ELSE LET feature == DictGet(specs, feature_name) IN
         IF feature.preprocessors # << >>
         THEN Built("outputs", Chain(CustomSteps(feature, feature_name), <<input_layer>>),
                    feature.kwargs)
         ELSE IF feature.feature_type = "FLOAT_DISCRETIZED"
                 /\ ~KwHas(feature.kwargs, "bin_boundaries")
         THEN \* len(1.0)
              Raised(Exc("TypeError", <<"len">>, None, feature_name), feature.kwargs)
         ELSE Built("outputs",
                    Chain(NumericDefaultSteps(feature, feature_name,
                                              stats["mean"], stats["var"]),
                          <<input_layer>>),
                    feature.kwargs)

\* the lookup step of a categorical feature without custom steps (lines 581-596)
CategoricalLookupSteps(feature, feature_name, vocab) ==
    IF feature.feature_type = "STRING_CATEGORICAL"
    THEN << Layer("StringLookup", "lookup", feature_name,
                  [vocabulary |-> vocab, num_oov_indices |-> 1]) >>
    ELSE IF feature.feature_type = "INTEGER_CATEGORICAL"
    THEN << Layer("IntegerLookup", "lookup", feature_name,
                  [vocabulary |-> vocab, num_oov_indices |-> 1]) >>
    ELSE << >>

\* a faulty variant of CategoricalEncodingSteps: the one-hot encoding has no
\* slot for out-of-vocabulary tokens
CategoricalEncodingStepsWithoutOov(feature, feature_name, vocab) ==
    IF feature.category_encoding = "EMBEDDING"
    THEN << Layer("Embedding", "embed", feature_name,
                  [input_dim |-> Len(vocab) + 1,
                   output_dim |->
                       IF KwGet(feature.kwargs, "embedding_size", 0) # 0
                       THEN feature.kwargs["embedding_size"]
                       ELSE EmbeddingSizeRule(Len(vocab) + 1)]) >>
    ELSE IF feature.category_encoding = "ONE_HOT_ENCODING"
    THEN << Layer("CategoryEncoding", "one_hot", feature_name,
                  [num_tokens |-> Len(vocab), output_mode |-> "one_hot"]),
            Layer("cast_to_float32", "cast_to_float", feature_name, EmptyKw) >>
    ELSE << >>

\* the encoding steps of a categorical feature (lines 598-622)
CategoricalEncodingSteps(feature, feature_name, vocab) ==
    IF feature.category_encoding = "EMBEDDING"
    THEN << Layer("Embedding", "embed", feature_name,
                  [input_dim |-> Len(vocab) + 1,
                   output_dim |->
                       IF KwGet(feature.kwargs, "embedding_size", 0) # 0
                       THEN feature.kwargs["embedding_size"]
                       ELSE EmbeddingSizeRule(Len(vocab) + 1)]) >>
    ELSE IF feature.category_encoding = "ONE_HOT_ENCODING"
    THEN << Layer("CategoryEncoding", "one_hot", feature_name,
                  [num_tokens |-> Len(vocab) + 1, output_mode |-> "one_hot"]),
            Layer("cast_to_float32", "cast_to_float", feature_name, EmptyKw) >>
    ELSE << >>

\* a faulty variant of AddPipelineCategorical: custom steps replace the whole
\* pipeline, as in the numeric and text builders: no encoding, no flatten
AddPipelineCategoricalCustomOnly(specs, feature_name, input_layer, stats) ==
    IF "vocab" \notin DOMAIN stats
    THEN Raised(Exc("KeyError", <<"vocab">>, None, feature_name),
                KwargsOf(specs, feature_name))
    ELSE IF ~DictHas(specs, feature_name)
    THEN Raised(Exc("KeyError", <<feature_name>>, None, feature_name), EmptyKw)
    ELSE LET feature == DictGet(specs, feature_name)
             vocab == stats["vocab"]
         IN IF feature.preprocessors # << >>
            THEN Built("outputs_categorical",
                       Chain(CustomSteps(feature, feature_name), <<input_layer>>),
                       feature.kwargs)
            ELSE IF feature.cls # "CategoricalFeature"
            THEN Raised(Exc("AttributeError", <<"category_encoding">>, None, feature_name),
                        feature.kwargs)
            ELSE Built("outputs_categorical",
                       Chain(CategoricalLookupSteps(feature, feature_name, vocab)
                                \o CategoricalEncodingSteps(feature, feature_name, vocab)
                                \o << Layer("Flatten", "flatten", feature_name, EmptyKw) >>,
                             <<input_layer>>),
                       feature.kwargs)

\* _add_pipeline_categorical
AddPipelineCategorical(specs, feature_name, input_layer, stats) ==
    IF "vocab" \notin DOMAIN stats
    THEN Raised(Exc("KeyError", <<"vocab">>, None, feature_name),
                KwargsOf(specs, feature_name))
    ELSE IF ~DictHas(specs, feature_name)
    THEN Raised(Exc("KeyError", <<feature_name>>, None, feature_name), EmptyKw)
    ELSE LET feature == DictGet(specs, feature_name)
             vocab == stats["vocab"]
             first == IF feature.preprocessors # << >>
                      THEN CustomSteps(feature, feature_name)
                      ELSE CategoricalLookupSteps(feature, feature_name, vocab)
         IN IF feature.cls # "CategoricalFeature"
            THEN \* no category_encoding attribute
                 Raised(Exc("AttributeError", <<"category_encoding">>, None, feature_name),
                        feature.kwargs)
            ELSE Built("outputs_categorical",
                       Chain(first \o CategoricalEncodingSteps(feature, feature_name, vocab)
                                   \o << Layer("Flatten", "flatten", feature_name, EmptyKw) >>,
                             <<input_layer>>),
                       feature.kwargs)

(***************************************************************************)
(* Feature names.  The composite key of a cross, f"{a}_x_{b}", and the     *)
(* key a Feature object makes when it is used as a dict key, are tables    *)
(* over the names the model draws from.                                    *)
(***************************************************************************)
NamePool == <<"age", "city", "note", "day">>

\* f"{feature_a}_x_{feature_b}" over NamePool and over the names a and a_x_a,
\* for which two pairs are formatted to one key
CrossKey(a, b) ==
    CASE a = "age" /\ b = "age" -> "age_x_age"
      [] a = "age" /\ b = "city" -> "age_x_city"
      [] a = "age" /\ b = "note" -> "age_x_note"
      [] a = "age" /\ b = "day" -> "age_x_day"
      [] a = "city" /\ b = "age" -> "city_x_age"
      [] a = "city" /\ b = "city" -> "city_x_city"
      [] a = "city" /\ b = "note" -> "city_x_note"
      [] a = "city" /\ b = "day" -> "city_x_day"
      [] a = "note" /\ b = "age" -> "note_x_age"
      [] a = "note" /\ b = "city" -> "note_x_city"
      [] a = "note" /\ b = "note" -> "note_x_note"
      [] a = "note" /\ b = "day" -> "note_x_day"
      [] a = "day" /\ b = "age" -> "day_x_age"
      [] a = "day" /\ b = "city" -> "day_x_city"
      [] a = "day" /\ b = "note" -> "day_x_note"
      [] a = "day" /\ b = "day" -> "day_x_day"
      [] a = "a" /\ b = "a" -> "a_x_a"
      [] a = "a" /\ b = "a_x_a" -> "a_x_a_x_a"
      [] a = "a_x_a" /\ b = "a" -> "a_x_a_x_a"
      [] a = "a_x_a" /\ b = "a_x_a" -> "a_x_a_x_a_x_a"
FeatureObjectKey(a) ==
    CASE a = "age" -> "<Feature age>"
      [] a = "city" -> "<Feature city>"
      [] a = "note" -> "<Feature note>"
      [] a = "day" -> "<Feature day>"
      [] a = "a" -> "<Feature a>"
      [] a = "a_x_a" -> "<Feature a_x_a>"
\* the sequence length a text feature gets when none is configured (line 670)
DefaultSequenceLength == 35

\* a faulty variant of AddPipelineText: the handle is stored in outputs in
\* both output modes
AddPipelineTextAlwaysPlain(specs, output_mode_, feature_name, input_layer, stats) ==
    IF ~DictHas(specs, feature_name)
    THEN Raised(Exc("KeyError", <<feature_name>>, None, feature_name), EmptyKw)
    ELSE LET feature == DictGet(specs, feature_name)
             map == "outputs"
         IN IF "vocab" \notin DOMAIN stats
            THEN Raised(Exc("KeyError", <<"vocab">>, None, feature_name), feature.kwargs)
            ELSE IF feature.preprocessors # << >>
            THEN Built(map, Chain(CustomSteps(feature, feature_name), <<input_layer>>),
                       feature.kwargs)
            ELSE LET kw == IF KwHas(feature.kwargs, "output_sequence_length")
                           THEN feature.kwargs
                           ELSE ("output_sequence_length" :> DefaultSequenceLength)
                                    @@ feature.kwargs
                     pre == IF KwGet(feature.kwargs, "stop_words", << >>) # << >>
                            THEN << Layer("text_preprocessing", "text_preprocessor",
                                          feature_name, feature.kwargs) >>
                            ELSE << >>
                 IN Built(map,
                          Chain(pre \o
                                << Layer("TextVectorization", "text_vactorizer", feature_name,
                                         ("vocabulary" :> stats["vocab"]) @@ kw),
                                   Layer("cast_to_float32", "cast_to_float", feature_name,
                                         EmptyKw) >>,
                                <<input_layer>>),
                          kw)

\* _add_pipeline_text
AddPipelineText(specs, output_mode_, feature_name, input_layer, stats) ==
    IF ~DictHas(specs, feature_name)
    THEN Raised(Exc("KeyError", <<feature_name>>, None, feature_name), EmptyKw)
    ELSE LET feature == DictGet(specs, feature_name)
             map == IF output_mode_ = "concat" THEN "outputs_categorical" ELSE "outputs"
         IN IF "vocab" \notin DOMAIN stats
            THEN Raised(Exc("KeyError", <<"vocab">>, None, feature_name), feature.kwargs)
            ELSE IF feature.preprocessors # << >>
            THEN Built(map, Chain(CustomSteps(feature, feature_name), <<input_layer>>),
                       feature.kwargs)
            ELSE LET kw == IF KwHas(feature.kwargs, "output_sequence_length")
                           THEN feature.kwargs
                           ELSE ("output_sequence_length" :> DefaultSequenceLength)
                                    @@ feature.kwargs
                     pre == IF KwGet(feature.kwargs, "stop_words", << >>) # << >>
                            THEN << Layer("text_preprocessing", "text_preprocessor",
                                          feature_name, feature.kwargs) >>
                            ELSE << >>
                 IN Built(map,
                          Chain(pre \o
                                << Layer("TextVectorization", "text_vactorizer", feature_name,
                                         ("vocabulary" :> stats["vocab"]) @@ kw),
                                   Layer("cast_to_float32", "cast_to_float", feature_name,
                                         EmptyKw) >>,
                                <<input_layer>>),
                          kw)

\* the default steps of a date feature (lines 749-774)
DateDefaultSteps(feature, feature_name) ==
    IF feature.feature_type = "DATE"
    THEN << Layer("date_parsing", "date_parsing", feature_name,
                  [date_format |-> KwGet(feature.kwargs, "format", "YYYY-MM-DD")]),
            Layer("date_encoding", "date_encoding", feature_name, EmptyKw) >>
         \o (IF KwGet(feature.kwargs, "add_season", FALSE)
             THEN << Layer("date_season", "date_season", feature_name, EmptyKw) >>
             ELSE << >>)
    ELSE << >>

\* _add_pipeline_date
AddPipelineDate(specs, feature_name, input_layer) ==
    IF ~DictHas(specs, feature_name)
    THEN Raised(Exc("KeyError", <<feature_name>>, None, feature_name), EmptyKw)
    ELSE LET feature == DictGet(specs, feature_name) IN
         Built("outputs",
               Chain(IF feature.preprocessors # << >>
                     THEN CustomSteps(feature, feature_name)
                     ELSE DateDefaultSteps(feature, feature_name),
                     <<input_layer>>),
               feature.kwargs)

\* the steps of one cross (lines 712-723)
CrossSteps(feature_a, feature_b, nr_bins) ==
    << Layer("HashedCrossing", "cross", CrossKey(feature_a, feature_b),
             [num_bins |-> nr_bins]),
       Layer("cast_to_float32", "cast_to_float", CrossKey(feature_a, feature_b), EmptyKw) >>

(***************************************************************************)
(* The state.                                                              *)
(***************************************************************************)
VARIABLES
    \* the constructor's arguments and the statistics collaborator
    specs_arg,              \* features_specs as passed: <<name, declaration>> pairs
    stats_arg,              \* features_stats as passed
    computed_stats,         \* what DatasetStatistics.main() computes from the data
    output_mode,            \* "concat" or "dict"
    feature_crosses,        \* <<feature_a, feature_b, nr_bins>> triples
    overwrite_stats,
    use_caching,
    transfo_nr_blocks,      \* 0 when None
    transfo_placement,      \* "categorical" or "all_features"
    \* the normalised feature space
    features_specs,         \* dict name -> descriptor
    numeric_features,
    categorical_features,
    text_features,
    date_features,
    features_stats,         \* dict group -> dict name -> statistics record
    stats_instance,         \* hasattr(self, "stats_instance")
    \* the graph under construction
    inputs,                 \* dict name -> placeholder
    signature,              \* dict name -> dtype
    outputs,                \* dict name -> handle
    outputs_categorical,    \* dict name -> handle
    preprocessed_cache,     \* None, or Some(dict name -> processed value)
    features_to_concat,     \* None while the attribute is not set
    features_cat_to_concat, \* None while the attribute is not set
    concat_all,             \* None, or Some(fused tensor)
    model,                  \* None, or Some([inputs, outputs])
    \* control: the caller's thread and the worker pool
    pc,
    gi,                     \* position in the loop over features_stats
    ki,                     \* position in feature_groups
    wi,                     \* position in the loop over the futures
    idx,                    \* position in the cross, text and date loops
    groups,                 \* the four kind groups of the current features_dict
    tasks,                  \* the futures of the current pool, in submission order
    done_order,             \* the features of the current pool's finished tasks, in completion order
    pending_exc,            \* the exception propagating in the caller's thread
    raised,                 \* the exception the last call delivered to its caller
    result,                 \* what build_preprocessor returned
    init_error,             \* the exception the constructor raised
    \* batch_predict: the generator and its consumer
    bp_pc,                  \* the generator's position; "none" while there is none
    data,                   \* the dataset: a sequence of batches
    bp_model,               \* _model
    bp_batch_size,          \* _batch_size
    bp_parallel,
    bp_pos,                 \* how many batches the loop over data has taken
    batches,                \* the batches collected for the next group
    bp_futures,             \* the futures of _predict_batch_parallel, in submission order
    results,                \* the results list of _predict_batch_parallel
    ri,                     \* position in the loop over results
    yielded,                \* the values the consumer has received, in order
    bp_raised,              \* the exception the generator raised
    \* save_model and load_model
    saved,                  \* the saved model at model_path: None, or Some([graph, metadata])
    loaded,                 \* what load_model returned
    io_calls,               \* the calls of save_model and load_model made, in order,
                            \* each with the exception it raised
    \* one call of the season layer
    date_in,                \* the parsed date passed: <<year, month, day, weekday>>
    date_out,               \* None, or Some(what the layer returned)
    \* the calls of _get_cached_or_process made
    memo_calls              \* per call: its feature name, the value its processor
                            \* returns, whether the processor was invoked, what
                            \* the call returned

cfgVars == <<specs_arg, stats_arg, computed_stats, output_mode, feature_crosses,
             overwrite_stats, use_caching, transfo_nr_blocks, transfo_placement>>
listVars == <<numeric_features, categorical_features, text_features, date_features>>
graphVars == <<inputs, signature, outputs, outputs_categorical>>
fuseVars == <<features_to_concat, features_cat_to_concat, concat_all, model>>
poolVars == <<gi, ki, wi, groups, tasks, done_order>>
predictVars == <<bp_pc, data, bp_model, bp_batch_size, bp_parallel, bp_pos, batches,
                 bp_futures, results, ri, yielded, bp_raised>>
ioVars == <<saved, loaded, io_calls>>
layerVars == <<date_in, date_out>>
memoVars == <<memo_calls>>
callVars == <<predictVars, ioVars, layerVars, memoVars>>
buildVars == <<cfgVars, features_specs, listVars, features_stats, stats_instance, graphVars,
               preprocessed_cache, fuseVars, pc, poolVars, idx, pending_exc, raised, result,
               init_error>>
vars == <<buildVars, callVars>>

(***************************************************************************)
(* The arguments the model draws from.                                     *)
(***************************************************************************)
Tokens == <<"NYC", "LA", "SF", "CHI">>
Vocab(v) == SubSeq(Tokens, 1, v)

NumericStats == [mean |-> 30, var |-> 25, dtype |-> "float32"]
NumericStatsNoVar == [mean |-> 30, dtype |-> "float32"]
VocabStats(v) == [vocab |-> Vocab(v), dtype |-> "string"]
DtypeOnlyStats == [dtype |-> "string"]

s_float_normalized ==
    <<"f","l","o","a","t","_","n","o","r","m","a","l","i","z","e","d">>
s_string_categorical ==
    <<"s","t","r","i","n","g","_","c","a","t","e","g","o","r","i","c","a","l">>
s_text == <<"t","e","x","t">>
s_date == <<"d","a","t","e">>

\* one declared feature: its declaration, and its statistics record (None
\* when it has none) with the statistics group that holds it
Profile(decl, group, stats) == [decl |-> decl, group |-> group, stats |-> stats]

OneHotCategorical ==
    InstanceDecl("CategoricalFeature", "STRING_CATEGORICAL", << >>, EmptyKw,
                 "ONE_HOT_ENCODING")

Profiles ==
    { Profile(StrDecl(s_float_normalized), "numeric_stats", Some(NumericStats)),
      Profile(StrDecl(s_float_normalized), "numeric_stats", Some(NumericStatsNoVar)),
      Profile(StrDecl(s_text), "text", Some(VocabStats(1))),
      Profile(StrDecl(s_text), "text", Some(DtypeOnlyStats)),
      Profile(StrDecl(s_text), "", None),
      Profile(StrDecl(s_date), "", None) }
    \cup { Profile(OneHotCategorical, "categorical_stats", Some(VocabStats(v))) :
             v \in 1..MaxVocab }
    \cup { Profile(StrDecl(s_string_categorical), "categorical_stats",
                   Some(VocabStats(MaxVocab))) }

StatsGroups == <<"numeric_stats", "categorical_stats", "text">>

\* the entries of statistics group g, in declaration order
RECURSIVE GroupEntries(_, _, _)
GroupEntries(ps, g, i) ==
    IF i > Len(ps) THEN EmptyDict
    ELSE (IF ps[i].group = g /\ IsSome(ps[i].stats)
          THEN << <<NamePool[i], TheVal(ps[i].stats)>> >>
          ELSE << >>)
         \o GroupEntries(ps, g, i + 1)

\* the statistics of the declared features: the groups that hold an entry
RECURSIVE AssembleStats(_, _)
AssembleStats(ps, j) ==
    IF j > Len(StatsGroups) THEN EmptyDict
    ELSE (IF GroupEntries(ps, StatsGroups[j], 1) # EmptyDict
          THEN << <<StatsGroups[j], GroupEntries(ps, StatsGroups[j], 1)>> >>
          ELSE << >>)
         \o AssembleStats(ps, j + 1)

SpecsOf(ps) == [i \in 1..Len(ps) |-> <<NamePool[i], ps[i].decl>>]

\* the other arguments of the constructor: whether statistics are passed,
\* overwrite_stats, use_caching, whether a cross (of the first declared
\* feature with the last) is declared, transfo_nr_blocks, transfo_placement
Config(supplied, overwrite, caching, cross, blocks, placement) ==
    [supplied |-> supplied, overwrite |-> overwrite, caching |-> caching,
     cross |-> cross, blocks |-> blocks, placement |-> placement]

DefaultConfig == Config(TRUE, FALSE, TRUE, FALSE, 0, "categorical")

\* the default arguments, and each argument changed alone
Configs ==
    { DefaultConfig,
      [DefaultConfig EXCEPT !.supplied = FALSE],
      [DefaultConfig EXCEPT !.overwrite = TRUE],
      [DefaultConfig EXCEPT !.caching = FALSE],
      [DefaultConfig EXCEPT !.cross = TRUE],
      [DefaultConfig EXCEPT !.blocks = 1],
      [DefaultConfig EXCEPT !.blocks = 1, !.placement = "all_features"] }

CrossesOf(c, n) ==
    IF c.cross /\ n >= 1 THEN << <<NamePool[1], NamePool[n], 10>> >> ELSE << >>

\* the constructor's arguments: the declared features ps and the rest c
Arguments(ps, c) ==
    /\ specs_arg = SpecsOf(ps)
    /\ computed_stats = AssembleStats(ps, 1)
    /\ stats_arg = IF c.supplied THEN AssembleStats(ps, 1) ELSE EmptyDict
    /\ feature_crosses = CrossesOf(c, Len(ps))
    /\ overwrite_stats = c.overwrite
    /\ use_caching = c.caching
    /\ transfo_nr_blocks = c.blocks
    /\ transfo_placement = c.placement

\* no batch_predict generator has been made
NoPredict ==
    /\ bp_pc = "none"
    /\ data = << >>
    /\ bp_model = None
    /\ bp_batch_size = 0
    /\ bp_parallel = FALSE
    /\ bp_pos = 0
    /\ batches = << >>
    /\ bp_futures = << >>
    /\ results = << >>
    /\ ri = 0
    /\ yielded = << >>
    /\ bp_raised = None

\* save_model and load_model have not been called
NoSaveOrLoad ==
    /\ loaded = None
    /\ io_calls = << >>

\* the state before the constructor runs
Unbuilt ==
    /\ features_specs = EmptyDict
    /\ numeric_features = << >>
    /\ categorical_features = << >>
    /\ text_features = << >>
    /\ date_features = << >>
    /\ features_stats = EmptyDict
    /\ stats_instance = FALSE
    /\ inputs = EmptyDict
    /\ signature = EmptyDict
    /\ outputs = EmptyDict
    /\ outputs_categorical = EmptyDict
    /\ preprocessed_cache = None
    /\ features_to_concat = None
    /\ features_cat_to_concat = None
    /\ concat_all = None
    /\ model = None
    /\ pc = "constructed"
    /\ gi = 0
    /\ ki = 0
    /\ wi = 0
    /\ idx = 0
    /\ groups = << >>
    /\ tasks = << >>
    /\ done_order = << >>
    /\ pending_exc = None
    /\ raised = None
    /\ result = None
    /\ init_error = None
    /\ NoPredict
    /\ NoSaveOrLoad
    /\ date_out = None
    /\ memo_calls = << >>

Init ==
    /\ \E n \in 0..MaxFeatures :
         \E ps \in [1..n -> Profiles] :
            \E c \in Configs : Arguments(ps, c)
    /\ output_mode \in {"concat", "dict"}
    /\ saved = None
    /\ date_in = << >>
    /\ Unbuilt

(***************************************************************************)
(* PreprocessingModel.__init__: the attributes, _init_features_specs on a  *)
(* fresh converter, _init_stats.                                           *)
(***************************************************************************)
\* DatasetStatistics._load_stats(): the cached statistics, empty when there
\* is no cache file
LoadableStats == {EmptyDict, computed_stats}

\* a faulty variant of Construct: _init_stats creates the statistics
\* collaborator whether or not statistics were supplied
ConstructWithCollaborator ==
    /\ pc = "constructed"
    /\ LET fsc == ConvertFeaturesSpecs(specs_arg) IN
       IF IsSome(fsc.error)
       THEN /\ pc' = "init_failed"
            /\ init_error' = fsc.error
            /\ UNCHANGED <<features_specs, listVars, features_stats, stats_instance,
                           preprocessed_cache>>
       ELSE /\ pc' = "idle"
            /\ init_error' = None
            /\ features_specs' = fsc.features_space
            /\ numeric_features' = fsc.numeric_features
            /\ categorical_features' = fsc.categorical_features
            /\ text_features' = fsc.text_features
            /\ date_features' = fsc.date_features
            /\ preprocessed_cache' = IF use_caching THEN Some(EmptyDict) ELSE None
            /\ IF stats_arg = EmptyDict
               THEN /\ stats_instance' = TRUE
                    /\ features_stats' \in LoadableStats
               ELSE /\ stats_instance' = TRUE
                    /\ features_stats' = stats_arg
    /\ UNCHANGED <<cfgVars, callVars, graphVars, fuseVars, poolVars, idx, pending_exc, raised, result>>

\* __init__ (lines 122-185, 262-280)
Construct ==
    /\ pc = "constructed"
    /\ LET fsc == ConvertFeaturesSpecs(specs_arg) IN
       IF IsSome(fsc.error)
       THEN /\ pc' = "init_failed"
            /\ init_error' = fsc.error
            /\ UNCHANGED <<features_specs, listVars, features_stats, stats_instance,
                           preprocessed_cache>>
       ELSE /\ pc' = "idle"
            /\ init_error' = None
            /\ features_specs' = fsc.features_space
            /\ numeric_features' = fsc.numeric_features
            /\ categorical_features' = fsc.categorical_features
            /\ text_features' = fsc.text_features
            /\ date_features' = fsc.date_features
            /\ preprocessed_cache' = IF use_caching THEN Some(EmptyDict) ELSE None
            /\ IF stats_arg = EmptyDict
               THEN /\ stats_instance' = TRUE
                    /\ features_stats' \in LoadableStats
               ELSE /\ stats_instance' = FALSE
                    /\ features_stats' = stats_arg
    /\ UNCHANGED <<cfgVars, callVars, graphVars, fuseVars, poolVars, idx, pending_exc, raised, result>>

(***************************************************************************)
(* _cleanup_intermediate_tensors.                                          *)
(***************************************************************************)
\* a faulty variant of ClearedCache: the memo is left as it is
KeptCache(cache) == cache

\* if self._preprocessed_cache: self._preprocessed_cache.clear()
ClearedCache(cache) == IF IsSome(cache) THEN Some(EmptyDict) ELSE cache

\* del self.features_to_concat / del self.features_cat_to_concat
DroppedList(list) == None

(***************************************************************************)
(* build_preprocessor, up to the scheduler.                                *)
(***************************************************************************)
\* a faulty variant of BuildStart: the validation is left out, the build goes
\* on with the statistics it has
BuildStartUnchecked ==
    /\ pc = "idle"
    /\ pc' = "stats_loop"
    /\ gi' = 1
    /\ UNCHANGED <<features_stats, pending_exc>>
    /\ UNCHANGED <<cfgVars, callVars, features_specs, listVars, stats_instance, graphVars,
                   preprocessed_cache, fuseVars, ki, wi, groups, tasks, done_order, idx,
                   raised, result, init_error>>

\* lines 896-907: the validation and the statistics
BuildStart ==
    /\ pc = "idle"
    /\ IF Len(features_specs) = 0
       THEN /\ pending_exc' = Some(Exc("ValueError", <<"No features specified">>, None, ""))
            /\ pc' = "except"
            /\ UNCHANGED <<features_stats, gi>>
       ELSE IF features_stats = EmptyDict \/ overwrite_stats
       THEN IF ~stats_instance
            THEN /\ pending_exc' = Some(Exc("ValueError", <<"stats_instance not initialized">>,
                                            None, ""))
                 /\ pc' = "except"
                 /\ UNCHANGED <<features_stats, gi>>
            ELSE /\ features_stats' = computed_stats
                 /\ pc' = "stats_loop"
                 /\ gi' = 1
                 /\ UNCHANGED pending_exc
       ELSE /\ pc' = "stats_loop"
            /\ gi' = 1
            /\ UNCHANGED <<features_stats, pending_exc>>
    /\ UNCHANGED <<cfgVars, callVars, features_specs, listVars, stats_instance, graphVars,
                   preprocessed_cache, fuseVars, ki, wi, groups, tasks, done_order, idx,
                   raised, result, init_error>>

(***************************************************************************)
(* _process_features_parallel: the grouping (lines 441-455).               *)
(***************************************************************************)
KindNames == <<"numeric", "categorical", "text", "date">>

\* a faulty variant of KindOfEntry: a record with a vocab goes to the
\* categorical group whether or not the feature is a declared text feature
KindOfEntryVocabFirst(feature_name, stats, text_names, date_names) ==
    IF "mean" \in DOMAIN stats THEN "numeric"
    ELSE IF "vocab" \in DOMAIN stats THEN "categorical"
    ELSE IF InSeq(feature_name, text_names) THEN "text"
    ELSE IF InSeq(feature_name, date_names) THEN "date"
    ELSE ""

\* the group a statistics entry goes to; "" when it goes to none
KindOfEntry(feature_name, stats, text_names, date_names) ==
    IF "mean" \in DOMAIN stats THEN "numeric"
    ELSE IF "vocab" \in DOMAIN stats /\ ~InSeq(feature_name, text_names) THEN "categorical"
    ELSE IF InSeq(feature_name, text_names) THEN "text"
    ELSE IF InSeq(feature_name, date_names) THEN "date"
    ELSE ""

RECURSIVE EntriesOfKind(_, _, _, _, _)
EntriesOfKind(features_dict, kind, text_names, date_names, i) ==
    IF i > Len(features_dict) THEN << >>
    ELSE (IF KindOfEntry(features_dict[i][1], features_dict[i][2], text_names, date_names)
               = kind
          THEN << features_dict[i] >>
          ELSE << >>)
         \o EntriesOfKind(features_dict, kind, text_names, date_names, i + 1)

\* feature_groups: the (feature_name, stats) lists of the four kinds
FeatureGroups(features_dict, text_names, date_names) ==
    [k \in 1..Len(KindNames) |->
        EntriesOfKind(features_dict, KindNames[k], text_names, date_names, 1)]

(***************************************************************************)
(* The worker pool.  A future is [kind, feature, stats, input_layer,       *)
(* status, exc]; status is "pending", "done" or "raised".                  *)
(***************************************************************************)
Future(kind, feature, stats, input_layer) ==
    [kind |-> kind, feature |-> feature, stats |-> stats, input_layer |-> input_layer,
     status |-> "pending", exc |-> None]

AllComplete(futures) == \A i \in 1..Len(futures) : futures[i].status # "pending"

\* the generation of the next placeholder created under a name
NextGen(ins, name) == IF DictHas(ins, name) THEN DictGet(ins, name).gen + 1 ELSE 1

\* a faulty variant of NextStatsGroup: after the last statistics group the
\* build goes on with the text loop, the call of _add_pipeline_cross is left out
NextStatsGroupSkippingCrosses ==
    /\ pc = "stats_loop"
    /\ IF gi > Len(features_stats)
       THEN /\ pc' = "text_loop"
            /\ idx' = 1
            /\ UNCHANGED <<groups, tasks>>
       ELSE LET features_dict == features_stats[gi][2] IN
            /\ groups' = FeatureGroups(features_dict, text_features, date_features)
            /\ tasks' = [i \in 1..Len(features_dict) |->
                            Future("input", features_dict[i][1], features_dict[i][2],
                                   Placeholder("", "", 0))]
            /\ pc' = "inputs_wait"
            /\ UNCHANGED idx
    /\ done_order' = << >>
    /\ UNCHANGED <<cfgVars, callVars, features_specs, listVars, features_stats, stats_instance,
                   graphVars, preprocessed_cache, fuseVars, gi, ki, wi, pending_exc,
                   raised, result, init_error>>

\* the loop over self.features_stats (lines 910-912); for a group, the
\* grouping and the submission of one setup_input per feature (lines 425-428)
NextStatsGroup ==
    /\ pc = "stats_loop"
    /\ IF gi > Len(features_stats)
       THEN /\ pc' = "cross"
            /\ idx' = 1
            /\ UNCHANGED <<groups, tasks>>
       ELSE LET features_dict == features_stats[gi][2] IN
            /\ groups' = FeatureGroups(features_dict, text_features, date_features)
            /\ tasks' = [i \in 1..Len(features_dict) |->
                            Future("input", features_dict[i][1], features_dict[i][2],
                                   Placeholder("", "", 0))]
            /\ pc' = "inputs_wait"
            /\ UNCHANGED idx
    /\ done_order' = << >>
    /\ UNCHANGED <<cfgVars, callVars, features_specs, listVars, features_stats, stats_instance,
                   graphVars, preprocessed_cache, fuseVars, gi, ki, wi, pending_exc,
                   raised, result, init_error>>

\* a worker runs setup_input (lines 420-423)
RunInputTask(i) ==
    /\ pc = "inputs_wait"
    /\ tasks[i].status = "pending"
    /\ LET feature_name == tasks[i].feature
           dtype == KwGet(tasks[i].stats, "dtype", "string")
       IN /\ inputs' = DictSet(inputs, feature_name,
                               Placeholder(feature_name, dtype, NextGen(inputs, feature_name)))
          /\ signature' = DictSet(signature, feature_name, dtype)
          /\ done_order' = Append(done_order, feature_name)
    /\ tasks' = [tasks EXCEPT ![i].status = "done"]
    /\ UNCHANGED <<cfgVars, callVars, features_specs, listVars, features_stats, stats_instance,
                   outputs, outputs_categorical, preprocessed_cache, fuseVars, pc, gi, ki, wi,
                   groups, idx, pending_exc, raised, result, init_error>>

\* a faulty variant of JoinInputs: the caller goes on without waiting for
\* the setup_input futures (no future.result(), the pool not joined)
JoinInputsWithoutWaiting ==
    /\ pc = "inputs_wait"
    /\ pc' = "kind_loop"
    /\ ki' = 1
    /\ tasks' = << >>
    /\ done_order' = << >>
    /\ UNCHANGED <<cfgVars, callVars, features_specs, listVars, features_stats, stats_instance,
                   graphVars, preprocessed_cache, fuseVars, gi, wi, groups, idx, pending_exc,
                   raised, result, init_error>>

\* the caller has waited for every future and left the pool (lines 430-432)
JoinInputs ==
    /\ pc = "inputs_wait"
    /\ AllComplete(tasks)
    /\ pc' = "kind_loop"
    /\ ki' = 1
    /\ tasks' = << >>
    /\ done_order' = << >>
    /\ UNCHANGED <<cfgVars, callVars, features_specs, listVars, features_stats, stats_instance,
                   graphVars, preprocessed_cache, fuseVars, gi, wi, groups, idx, pending_exc,
                   raised, result, init_error>>

\* the loop over feature_groups (lines 468-471) and the submissions of
\* _process_feature_batch (lines 373-403)
NextKindBatch ==
    /\ pc = "kind_loop"
    /\ IF ki > Len(KindNames)
       THEN /\ gi' = gi + 1
            /\ pc' = "stats_loop"
            /\ UNCHANGED <<ki, wi, tasks>>
       ELSE IF groups[ki] = << >>
       THEN /\ ki' = ki + 1
            /\ UNCHANGED <<pc, gi, wi, tasks>>
       ELSE /\ tasks' = [i \in 1..Len(groups[ki]) |->
                            Future(KindNames[ki], groups[ki][i][1], groups[ki][i][2],
                                   DictGet(inputs, groups[ki][i][1]))]
            /\ wi' = 1
            /\ pc' = "batch_wait"
            /\ UNCHANGED <<gi, ki>>
    /\ done_order' = << >>
    /\ UNCHANGED <<cfgVars, callVars, features_specs, listVars, features_stats, stats_instance,
                   graphVars, preprocessed_cache, fuseVars, groups, idx, pending_exc,
                   raised, result, init_error>>

\* the builder a future of a kind runs
RunBuilder(kind, specs, mode, feature_name, input_layer, stats) ==
    CASE kind = "numeric" -> AddPipelineNumeric(specs, feature_name, input_layer, stats)
      [] kind = "categorical" -> AddPipelineCategorical(specs, feature_name, input_layer, stats)
      [] kind = "text" -> AddPipelineText(specs, mode, feature_name, input_layer, stats)
      [] kind = "date" -> AddPipelineDate(specs, feature_name, input_layer)

\* the descriptors after a builder ran on a feature: its kwargs as the builder left them
WithKwargs(specs, feature_name, kw) ==
    IF DictHas(specs, feature_name)
    THEN DictSet(specs, feature_name, [DictGet(specs, feature_name) EXCEPT !.kwargs = kw])
    ELSE specs

\* a faulty variant of StoreOutput: every builder stores under one shared key
StoreOutputUnderSharedKey(map, name, target, key, handle) ==
    IF target = name THEN DictSet(map, "feature", handle) ELSE map

\* self.outputs[feature_name] = ... / self.outputs_categorical[feature_name] = ...:
\* the map named `name` after a builder stored `handle` in the map `target`
StoreOutput(map, name, target, key, handle) ==
    IF target = name THEN DictSet(map, key, handle) ELSE map

\* a worker runs one per-feature build to its end
RunBuildTask(i) ==
    /\ pc = "batch_wait"
    /\ tasks[i].status = "pending"
    /\ LET t == tasks[i]
           r == RunBuilder(t.kind, features_specs, output_mode, t.feature, t.input_layer,
                           t.stats)
       IN /\ features_specs' = WithKwargs(features_specs, t.feature, r.kwargs)
          /\ IF IsSome(r.error)
             THEN /\ tasks' = [tasks EXCEPT ![i].status = "raised", ![i].exc = r.error]
                  /\ UNCHANGED <<outputs, outputs_categorical>>
             ELSE /\ tasks' = [tasks EXCEPT ![i].status = "done"]
                  /\ outputs' = StoreOutput(outputs, "outputs", r.map, t.feature, r.handle)
                  /\ outputs_categorical' =
                         StoreOutput(outputs_categorical, "outputs_categorical", r.map,
                                     t.feature, r.handle)
          /\ done_order' = Append(done_order, t.feature)
    /\ UNCHANGED <<cfgVars, callVars, listVars, features_stats, stats_instance, inputs, signature,
                   preprocessed_cache, fuseVars, pc, gi, ki, wi, groups, idx, pending_exc,
                   raised, result, init_error>>

\* a faulty variant of WaitResult: the caller takes the futures as they
\* complete (for future in as_completed(futures)) instead of as submitted
WaitResultAsCompleted ==
    /\ pc = "batch_wait"
    /\ IsNone(pending_exc)
    /\ wi <= Len(tasks)
    /\ wi <= Len(done_order)
    /\ LET i == CHOOSE j \in 1..Len(tasks) : tasks[j].feature = done_order[wi] IN
       IF tasks[i].status = "raised"
       THEN /\ pending_exc' = tasks[i].exc
            /\ UNCHANGED wi
       ELSE /\ wi' = wi + 1
            /\ UNCHANGED pending_exc
    /\ UNCHANGED <<cfgVars, callVars, features_specs, listVars, features_stats, stats_instance,
                   graphVars, preprocessed_cache, fuseVars, pc, gi, ki, groups, tasks,
                   done_order, idx, raised, result, init_error>>

\* the caller's loop over the futures (lines 406-411): future.result() of the
\* next future, once it is complete, returns or raises its exception
WaitResult ==
    /\ pc = "batch_wait"
    /\ IsNone(pending_exc)
    /\ wi <= Len(tasks)
    /\ tasks[wi].status # "pending"
    /\ IF tasks[wi].status = "raised"
       THEN /\ pending_exc' = tasks[wi].exc
            /\ UNCHANGED wi
       ELSE /\ wi' = wi + 1
            /\ UNCHANGED pending_exc
    /\ UNCHANGED <<cfgVars, callVars, features_specs, listVars, features_stats, stats_instance,
                   graphVars, preprocessed_cache, fuseVars, pc, gi, ki, groups, tasks,
                   done_order, idx, raised, result, init_error>>

\* a faulty variant of ExitBatchPool: an exception leaves the pool without
\* waiting for the futures that are still running (shutdown(wait=False))
ExitBatchPoolWithoutWaiting ==
    /\ pc = "batch_wait"
    /\ ~(IsNone(pending_exc) /\ wi <= Len(tasks))
    /\ IF IsSome(pending_exc)
       THEN /\ pc' = "except"
            /\ UNCHANGED <<ki, tasks, done_order>>
       ELSE /\ AllComplete(tasks)
            /\ pc' = "kind_loop"
            /\ ki' = ki + 1
            /\ tasks' = << >>
            /\ done_order' = << >>
    /\ UNCHANGED <<cfgVars, callVars, features_specs, listVars, features_stats, stats_instance,
                   graphVars, preprocessed_cache, fuseVars, gi, wi, groups, idx, pending_exc,
                   raised, result, init_error>>

\* leaving the with block (line 373): the pool is shut down, which waits
\* for every submitted future; then the exception, if any, propagates
ExitBatchPool ==
    /\ pc = "batch_wait"
    /\ ~(IsNone(pending_exc) /\ wi <= Len(tasks))
    /\ AllComplete(tasks)
    /\ IF IsSome(pending_exc)
       THEN /\ pc' = "except"
            /\ UNCHANGED <<ki, tasks, done_order>>
       ELSE /\ pc' = "kind_loop"
            /\ ki' = ki + 1
            /\ tasks' = << >>
            /\ done_order' = << >>
    /\ UNCHANGED <<cfgVars, callVars, features_specs, listVars, features_stats, stats_instance,
                   graphVars, preprocessed_cache, fuseVars, gi, wi, groups, idx, pending_exc,
                   raised, result, init_error>>

(***************************************************************************)
(* _add_pipeline_cross, one declared cross (lines 699-725).                *)
(***************************************************************************)
\* the dtype of a feature object (Feature.dtype)
FeatureDtype(feature) ==
    IF feature.cls = "NumericalFeature" THEN "float32"
    ELSE IF feature.feature_type = "INTEGER_CATEGORICAL" THEN "int32"
    ELSE "string"

\* what line 710 does for a feature without a placeholder: the Feature
\* object, not its name, is passed as feature_name.  tf.keras.Input either
\* rejects a name that is no string ("TypeError") or the placeholder is
\* stored under the object ("stored")
MissingInputOutcomes == {"TypeError", "stored"}

\* the inputs map after line 710 stored a placeholder under the Feature object
WithObjectInput(ins, specs, name) ==
    IF DictHas(ins, name) THEN ins
    ELSE DictSet(ins, FeatureObjectKey(name),
                 Placeholder(FeatureObjectKey(name), FeatureDtype(DictGet(specs, name)),
                             NextGen(ins, FeatureObjectKey(name))))

\* a faulty variant of CrossStep: a cross whose key already has an entry is
\* skipped, the first declaration of a key is the one that is kept
CrossStepKeepingFirst ==
    /\ pc = "cross"
    /\ IF idx > Len(feature_crosses)
       THEN /\ pc' = "text_loop"
            /\ idx' = 1
            /\ UNCHANGED <<inputs, outputs, pending_exc>>
       ELSE \E outcome \in MissingInputOutcomes :
            LET a == feature_crosses[idx][1]
                b == feature_crosses[idx][2]
                key == CrossKey(a, b)
                \* the inputs after the pass of lines 703-710 for feature_a, for feature_b
                insA == IF outcome = "stored" /\ DictHas(features_specs, a)
                        THEN WithObjectInput(inputs, features_specs, a)
                        ELSE inputs
                insB == IF outcome = "stored" /\ DictHas(features_specs, b)
                        THEN WithObjectInput(insA, features_specs, b)
                        ELSE insA
                error ==
                    IF ~DictHas(features_specs, a) THEN Some(Exc("KeyError", <<a>>, None, key))
                    ELSE IF ~DictHas(insA, a) /\ outcome = "TypeError"
                    THEN Some(Exc("TypeError", <<"name">>, None, key))
                    ELSE IF ~DictHas(features_specs, b)
                    THEN Some(Exc("KeyError", <<b>>, None, key))
                    ELSE IF ~DictHas(insB, b) /\ outcome = "TypeError"
                    THEN Some(Exc("TypeError", <<"name">>, None, key))
                    ELSE IF ~DictHas(insB, a) THEN Some(Exc("KeyError", <<a>>, None, key))
                    ELSE IF ~DictHas(insB, b) THEN Some(Exc("KeyError", <<b>>, None, key))
                    ELSE None
            IN IF IsSome(error)
               THEN /\ pending_exc' = error
                    /\ pc' = "except"
                    /\ inputs' = IF ~DictHas(features_specs, a) THEN inputs
                                 ELSE IF ~DictHas(features_specs, b) THEN insA
                                 ELSE insB
                    /\ UNCHANGED <<outputs, idx>>
               ELSE /\ outputs' = IF DictHas(outputs, key) THEN outputs
                                   ELSE DictSet(outputs, key,
                                          Chain(CrossSteps(a, b, feature_crosses[idx][3]),
                                                <<DictGet(inputs, a), DictGet(inputs, b)>>))
                    /\ idx' = idx + 1
                    /\ UNCHANGED <<inputs, pc, pending_exc>>
    /\ UNCHANGED <<cfgVars, callVars, features_specs, listVars, features_stats, stats_instance,
                   signature, outputs_categorical, preprocessed_cache, fuseVars, poolVars,
                   raised, result, init_error>>

\* one pass of the loop over self.feature_crosses
CrossStep ==
    /\ pc = "cross"
    /\ IF idx > Len(feature_crosses)
       THEN /\ pc' = "text_loop"
            /\ idx' = 1
            /\ UNCHANGED <<inputs, outputs, pending_exc>>
       ELSE \E outcome \in MissingInputOutcomes :
            LET a == feature_crosses[idx][1]
                b == feature_crosses[idx][2]
                key == CrossKey(a, b)
                \* the inputs after the pass of lines 703-710 for feature_a, for feature_b
                insA == IF outcome = "stored" /\ DictHas(features_specs, a)
                        THEN WithObjectInput(inputs, features_specs, a)
                        ELSE inputs
                insB == IF outcome = "stored" /\ DictHas(features_specs, b)
                        THEN WithObjectInput(insA, features_specs, b)
                        ELSE insA
                error ==
                    IF ~DictHas(features_specs, a) THEN Some(Exc("KeyError", <<a>>, None, key))
                    ELSE IF ~DictHas(insA, a) /\ outcome = "TypeError"
                    THEN Some(Exc("TypeError", <<"name">>, None, key))
                    ELSE IF ~DictHas(features_specs, b)
                    THEN Some(Exc("KeyError", <<b>>, None, key))
                    ELSE IF ~DictHas(insB, b) /\ outcome = "TypeError"
                    THEN Some(Exc("TypeError", <<"name">>, None, key))
                    ELSE IF ~DictHas(insB, a) THEN Some(Exc("KeyError", <<a>>, None, key))
                    ELSE IF ~DictHas(insB, b) THEN Some(Exc("KeyError", <<b>>, None, key))
                    ELSE None
            IN IF IsSome(error)
               THEN /\ pending_exc' = error
                    /\ pc' = "except"
                    /\ inputs' = IF ~DictHas(features_specs, a) THEN inputs
                                 ELSE IF ~DictHas(features_specs, b) THEN insA
                                 ELSE insB
                    /\ UNCHANGED <<outputs, idx>>
               ELSE /\ outputs' = DictSet(outputs, key,
                                          Chain(CrossSteps(a, b, feature_crosses[idx][3]),
                                                <<DictGet(inputs, a), DictGet(inputs, b)>>))
                    /\ idx' = idx + 1
                    /\ UNCHANGED <<inputs, pc, pending_exc>>
    /\ UNCHANGED <<cfgVars, callVars, features_specs, listVars, features_stats, stats_instance,
                   signature, outputs_categorical, preprocessed_cache, fuseVars, poolVars,
                   raised, result, init_error>>

(***************************************************************************)
(* The text and date loops of build_preprocessor (lines 918-957).          *)
(***************************************************************************)
\* the vocab_size and sequence_length of the default text statistics
DefaultVocabSize == 10000
DefaultTextSequenceLength == 100
DefaultTextStats ==
    [vocab_size |-> DefaultVocabSize, sequence_length |-> DefaultTextSequenceLength,
     dtype |-> "string"]

\* self.features_stats after lines 926-927
WithTextGroup(stats) == IF DictHas(stats, "text") THEN stats ELSE DictSet(stats, "text", EmptyDict)

\* text_stats of lines 928-939
TextStatsOf(stats, feature_name) ==
    IF DictHas(DictGet(WithTextGroup(stats), "text"), feature_name)
    THEN DictGet(DictGet(WithTextGroup(stats), "text"), feature_name)
    ELSE DefaultTextStats

TextStep ==
    /\ pc = "text_loop"
    /\ IF idx > Len(text_features)
       THEN /\ pc' = "date_loop"
            /\ idx' = 1
            /\ UNCHANGED <<features_specs, features_stats, graphVars, pending_exc>>
       ELSE LET feature_name == text_features[idx]
                input_layer == Placeholder(feature_name, "string", NextGen(inputs, feature_name))
                r == AddPipelineText(features_specs, output_mode, feature_name, input_layer,
                                     TextStatsOf(features_stats, feature_name))
            IN /\ inputs' = DictSet(inputs, feature_name, input_layer)
               /\ signature' = DictSet(signature, feature_name, "string")
               /\ features_stats' = WithTextGroup(features_stats)
               /\ features_specs' = WithKwargs(features_specs, feature_name, r.kwargs)
               /\ IF IsSome(r.error)
                  THEN /\ pending_exc' = r.error
                       /\ pc' = "except"
                       /\ UNCHANGED <<outputs, outputs_categorical, idx>>
                  ELSE /\ outputs' = StoreOutput(outputs, "outputs", r.map, feature_name,
                                                 r.handle)
                       /\ outputs_categorical' =
                              StoreOutput(outputs_categorical, "outputs_categorical", r.map,
                                          feature_name, r.handle)
                       /\ idx' = idx + 1
                       /\ UNCHANGED <<pc, pending_exc>>
    /\ UNCHANGED <<cfgVars, callVars, listVars, stats_instance, preprocessed_cache, fuseVars, poolVars,
                   raised, result, init_error>>

\* a faulty variant of DateStep: the placeholder is created without its
\* signature entry (no call of _add_input_signature)
DateStepWithoutSignature ==
    /\ pc = "date_loop"
    /\ IF idx > Len(date_features)
       THEN /\ pc' = "prepare"
            /\ UNCHANGED <<features_specs, graphVars, pending_exc, idx>>
       ELSE LET feat_name == date_features[idx]
                input_layer == Placeholder(feat_name, "string", NextGen(inputs, feat_name))
                r == AddPipelineDate(features_specs, feat_name, input_layer)
            IN /\ inputs' = DictSet(inputs, feat_name, input_layer)
               /\ signature' = signature
               /\ features_specs' = WithKwargs(features_specs, feat_name, r.kwargs)
               /\ IF IsSome(r.error)
                  THEN /\ pending_exc' = r.error
                       /\ pc' = "except"
                       /\ UNCHANGED <<outputs, outputs_categorical, idx>>
                  ELSE /\ outputs' = StoreOutput(outputs, "outputs", r.map, feat_name, r.handle)
                       /\ outputs_categorical' =
                              StoreOutput(outputs_categorical, "outputs_categorical", r.map,
                                          feat_name, r.handle)
                       /\ idx' = idx + 1
                       /\ UNCHANGED <<pc, pending_exc>>
    /\ UNCHANGED <<cfgVars, callVars, listVars, features_stats, stats_instance, preprocessed_cache,
                   fuseVars, poolVars, raised, result, init_error>>

\* the date loop (lines 948-957)
DateStep ==
    /\ pc = "date_loop"
    /\ IF idx > Len(date_features)
       THEN /\ pc' = "prepare"
            /\ UNCHANGED <<features_specs, graphVars, pending_exc, idx>>
       ELSE LET feat_name == date_features[idx]
                input_layer == Placeholder(feat_name, "string", NextGen(inputs, feat_name))
                r == AddPipelineDate(features_specs, feat_name, input_layer)
            IN /\ inputs' = DictSet(inputs, feat_name, input_layer)
               /\ signature' = DictSet(signature, feat_name, "string")
               /\ features_specs' = WithKwargs(features_specs, feat_name, r.kwargs)
               /\ IF IsSome(r.error)
                  THEN /\ pending_exc' = r.error
                       /\ pc' = "except"
                       /\ UNCHANGED <<outputs, outputs_categorical, idx>>
                  ELSE /\ outputs' = StoreOutput(outputs, "outputs", r.map, feat_name, r.handle)
                       /\ outputs_categorical' =
                              StoreOutput(outputs_categorical, "outputs_categorical", r.map,
                                          feat_name, r.handle)
                       /\ idx' = idx + 1
                       /\ UNCHANGED <<pc, pending_exc>>
    /\ UNCHANGED <<cfgVars, callVars, listVars, features_stats, stats_instance, preprocessed_cache,
                   fuseVars, poolVars, raised, result, init_error>>

(***************************************************************************)
(* _prepare_outputs (lines 779-859).                                       *)
(***************************************************************************)
\* the rank the reshape condition of line 794 compares with: 2 | 4
ReshapeRank == 6

\* the rank of a tensor: its per-sample shape and the batch axis
Rank(h) == Len(h.shape) + 1

\* line 794: tf.keras.layers.Reshape((-1,)) when the condition holds
Reshaped(h) ==
    IF Rank(h) = ReshapeRank
    THEN [h EXCEPT !.layers = Append(@, Layer("Reshape", "reshape", "", EmptyKw)),
                   !.shape = << Product(h.shape) >>]
    ELSE h

RECURSIVE SumLast(_)
SumLast(parts) ==
    IF parts = << >> THEN 0
    ELSE Head(parts).shape[Len(Head(parts).shape)] + SumLast(Tail(parts))

RECURSIVE AllInputs(_)
AllInputs(parts) ==
    IF parts = << >> THEN << >> ELSE Head(parts).inputs \o AllInputs(Tail(parts))

\* Concatenate(axis=-1) accepts tensors of one rank that agree on every other axis
ConcatOk(parts) ==
    \A i \in 1..Len(parts) :
        /\ Len(parts[i].shape) = Len(parts[1].shape)
        /\ SubSeq(parts[i].shape, 1, Len(parts[i].shape) - 1)
             = SubSeq(parts[1].shape, 1, Len(parts[1].shape) - 1)

\* tf.keras.layers.Concatenate(name=name, axis=-1)(parts)
Concatenate(name, parts) ==
    [layers |-> << Layer("Concatenate", name, "", EmptyKw) >>,
     shape |-> Append(SubSeq(parts[1].shape, 1, Len(parts[1].shape) - 1), SumLast(parts)),
     dtype |-> "float32",
     inputs |-> AllInputs(parts),
     parts |-> parts]

\* a faulty variant of WithTransformerBlocks: one block is added whatever
\* the configured count (the loop over range(self.transfo_nr_blocks) left out)
WithTransformerBlocksOnce(h, n) ==
    IF n = 0 THEN h
    ELSE [h EXCEPT
            !.layers = Append(@, Layer("transformer_block", "transformer_block", "",
                                       [block_idx |-> 0, dim_model |-> h.shape[1]]))]

\* n transformer blocks chained after a tensor (lines 828-852)
RECURSIVE WithTransformerBlocks(_, _)
WithTransformerBlocks(h, n) ==
    IF n = 0 THEN h
    ELSE [WithTransformerBlocks(h, n - 1) EXCEPT
            !.layers = Append(@, Layer("transformer_block", "transformer_block", "",
                                       [block_idx |-> n - 1, dim_model |-> h.shape[1]]))]

\* a faulty variant of FuseConcat: ConcatenateAll is given the categorical
\* group first ([concat_cat, concat_num])
FuseConcatCategoricalFirst(plain, categorical, nr_blocks, placement) ==
    LET reshaped == [i \in 1..Len(plain) |-> Reshaped(plain[i])]
        bad == \/ (reshaped # << >> /\ ~ConcatOk(reshaped))
               \/ (categorical # << >> /\ ~ConcatOk(categorical))
        concat_num == IF reshaped # << >>
                      THEN Some(Concatenate("ConcatenateNumeric", reshaped))
                      ELSE None
        concat_cat == IF categorical # << >>
                      THEN Some(Concatenate("ConcatenateCategorical", categorical))
                      ELSE None
        both == << TheVal(concat_cat), TheVal(concat_num) >>
        fused == IF IsSome(concat_num) /\ IsSome(concat_cat)
                 THEN (IF ConcatOk(both) THEN Some(Concatenate("ConcatenateAll", both))
                       ELSE None)
                 ELSE IF IsSome(concat_num) THEN concat_num
                 ELSE IF IsSome(concat_cat) THEN concat_cat
                 ELSE None
        blocks == IF placement \in {"categorical", "all_features"} THEN nr_blocks ELSE 0
    IN IF bad \/ (IsSome(concat_num) /\ IsSome(concat_cat) /\ ~ConcatOk(both))
       THEN [error |-> Some(Exc("ValueError", <<"Concatenate">>, None, "")),
             concat_all |-> None]
       ELSE IF blocks # 0 /\ IsNone(fused)
       THEN \* self.concat_all.shape on None
            [error |-> Some(Exc("AttributeError", <<"shape">>, None, "")),
             concat_all |-> None]
       ELSE [error |-> None,
             concat_all |-> IF IsNone(fused) THEN None
                            ELSE Some(WithTransformerBlocks(TheVal(fused), blocks))]

\* the CONCAT branch: [error, concat_all]
FuseConcat(plain, categorical, nr_blocks, placement) ==
    LET reshaped == [i \in 1..Len(plain) |-> Reshaped(plain[i])]
        bad == \/ (reshaped # << >> /\ ~ConcatOk(reshaped))
               \/ (categorical # << >> /\ ~ConcatOk(categorical))
        concat_num == IF reshaped # << >>
                      THEN Some(Concatenate("ConcatenateNumeric", reshaped))
                      ELSE None
        concat_cat == IF categorical # << >>
                      THEN Some(Concatenate("ConcatenateCategorical", categorical))
                      ELSE None
        both == << TheVal(concat_num), TheVal(concat_cat) >>
        fused == IF IsSome(concat_num) /\ IsSome(concat_cat)
                 THEN (IF ConcatOk(both) THEN Some(Concatenate("ConcatenateAll", both))
                       ELSE None)
                 ELSE IF IsSome(concat_num) THEN concat_num
                 ELSE IF IsSome(concat_cat) THEN concat_cat
                 ELSE None
        blocks == IF placement \in {"categorical", "all_features"} THEN nr_blocks ELSE 0
    IN IF bad \/ (IsSome(concat_num) /\ IsSome(concat_cat) /\ ~ConcatOk(both))
       THEN [error |-> Some(Exc("ValueError", <<"Concatenate">>, None, "")),
             concat_all |-> None]
       ELSE IF blocks # 0 /\ IsNone(fused)
       THEN \* self.concat_all.shape on None
            [error |-> Some(Exc("AttributeError", <<"shape">>, None, "")),
             concat_all |-> None]
       ELSE [error |-> None,
             concat_all |-> IF IsNone(fused) THEN None
                            ELSE Some(WithTransformerBlocks(TheVal(fused), blocks))]

\* the DICT branch (lines 856-858): the keys of inputs that have an output,
\* then the other outputs, each with its output
RECURSIVE SeededKeys(_, _, _)
SeededKeys(ins, outs, i) ==
    IF i > Len(ins) THEN EmptyDict
    ELSE (IF DictHas(outs, ins[i][1]) THEN << <<ins[i][1], None>> >> ELSE << >>)
         \o SeededKeys(ins, outs, i + 1)

RECURSIVE DictUpdate(_, _, _)
DictUpdate(d, other, i) ==
    IF i > Len(other) THEN d
    ELSE DictUpdate(DictSet(d, other[i][1], other[i][2]), other, i + 1)

\* a faulty variant of OrderedOutputs: every key of inputs is seeded with
\* None, the test "if k in self.outputs" left out
OrderedOutputsSeededFromAllInputs(ins, outs) ==
    DictUpdate([i \in 1..Len(ins) |-> <<ins[i][1], None>>], outs, 1)

OrderedOutputs(ins, outs) == DictUpdate(SeededKeys(ins, outs, 1), outs, 1)

PrepareOutputs ==
    /\ pc = "prepare"
    /\ IF output_mode = "concat"
       THEN LET f == FuseConcat(DictValues(outputs), DictValues(outputs_categorical),
                                transfo_nr_blocks, transfo_placement)
            IN /\ features_to_concat' = Some(DictValues(outputs))
               /\ features_cat_to_concat' = Some(DictValues(outputs_categorical))
               /\ IF IsSome(f.error)
                  THEN /\ pending_exc' = f.error
                       /\ pc' = "except"
                       /\ UNCHANGED concat_all
                  ELSE /\ concat_all' = f.concat_all
                       /\ pc' = "model"
                       /\ UNCHANGED pending_exc
               /\ UNCHANGED outputs
       ELSE /\ outputs' = OrderedOutputs(inputs, outputs)
            /\ pc' = "model"
            /\ UNCHANGED <<features_to_concat, features_cat_to_concat, concat_all,
                           pending_exc>>
    /\ UNCHANGED <<cfgVars, callVars, features_specs, listVars, features_stats, stats_instance,
                   inputs, signature, outputs_categorical, preprocessed_cache, model,
                   poolVars, idx, raised, result, init_error>>

(***************************************************************************)
(* The end of build_preprocessor: the model, the cleanup and the return    *)
(* (lines 963-1003), and the except clause (lines 1004-1007).              *)
(***************************************************************************)
\* every placeholder a tensor was built from is the one inputs holds under its name
Connected(ins, h) ==
    \A i \in 1..Len(h.inputs) :
        /\ DictHas(ins, h.inputs[i].name)
        /\ DictGet(ins, h.inputs[i].name) = h.inputs[i]

\* what tf.keras.Model(inputs=..., outputs=...) does with an empty mapping of outputs
EmptyOutputsOutcomes == {"built", "ValueError"}

\* the exception tf.keras.Model raises for these inputs and outputs, if any
ModelError(mode, ins, fused, outs, outcome) ==
    IF mode = "concat"
    THEN IF IsNone(fused)
         THEN Some(Exc("ValueError", <<"no outputs">>, None, ""))
         ELSE IF ~Connected(ins, TheVal(fused))
         THEN Some(Exc("ValueError", <<"Graph disconnected">>, None, ""))
         ELSE None
    ELSE IF outs = EmptyDict
         THEN (IF outcome = "ValueError"
               THEN Some(Exc("ValueError", <<"no outputs">>, None, ""))
               ELSE None)
         ELSE IF \E i \in 1..Len(outs) : ~Connected(ins, outs[i][2])
         THEN Some(Exc("ValueError", <<"Graph disconnected">>, None, ""))
         ELSE None

\* _output_dims (lines 973-977)
OutputDims(mode, fused, outs) ==
    IF mode = "concat"
    THEN << TheVal(fused).shape[1] >>
    ELSE [i \in 1..Len(outs) |-> <<outs[i][1], outs[i][2].shape>>]

BuildModel ==
    /\ pc = "model"
    /\ \E outcome \in EmptyOutputsOutcomes :
        LET error == ModelError(output_mode, inputs, concat_all, outputs, outcome) IN
        IF IsSome(error)
        THEN /\ pending_exc' = error
             /\ pc' = "except"
             /\ UNCHANGED <<model, result, preprocessed_cache, features_to_concat,
                            features_cat_to_concat>>
        ELSE /\ model' = Some([inputs |-> inputs,
                               outputs |-> IF output_mode = "concat"
                                           THEN TheVal(concat_all)
                                           ELSE outputs])
             /\ result' = Some([output_dims |-> OutputDims(output_mode, concat_all, outputs)])
             /\ preprocessed_cache' = ClearedCache(preprocessed_cache)
             /\ features_to_concat' = DroppedList(features_to_concat)
             /\ features_cat_to_concat' = DroppedList(features_cat_to_concat)
             /\ pc' = "done"
             /\ UNCHANGED pending_exc
    /\ UNCHANGED <<cfgVars, callVars, features_specs, listVars, features_stats, stats_instance,
                   graphVars, concat_all, poolVars, idx, raised, init_error>>

\* a faulty variant of ExceptHandler: the exception is wrapped in a new one
\* (raise RuntimeError(...) from e)
ExceptHandlerWrapping ==
    /\ pc = "except"
    /\ preprocessed_cache' = ClearedCache(preprocessed_cache)
    /\ features_to_concat' = DroppedList(features_to_concat)
    /\ features_cat_to_concat' = DroppedList(features_cat_to_concat)
    /\ raised' = Some(Exc("RuntimeError", <<"Error building preprocessor">>, None, ""))
    /\ pending_exc' = None
    /\ pc' = "failed"
    /\ UNCHANGED <<cfgVars, callVars, features_specs, listVars, features_stats, stats_instance,
                   graphVars, concat_all, model, poolVars, idx, result, init_error>>

\* a faulty variant of ExceptHandler: the exception is swallowed and the call
\* returns what it has (return {"model": self.model, ...} in the except clause)
ExceptHandlerReturning ==
    /\ pc = "except"
    /\ preprocessed_cache' = ClearedCache(preprocessed_cache)
    /\ features_to_concat' = DroppedList(features_to_concat)
    /\ features_cat_to_concat' = DroppedList(features_cat_to_concat)
    /\ result' = Some([output_dims |-> << >>])
    /\ pending_exc' = None
    /\ pc' = "done"
    /\ UNCHANGED <<cfgVars, callVars, features_specs, listVars, features_stats, stats_instance,
                   graphVars, concat_all, model, poolVars, idx, raised, init_error>>

\* except Exception: the cleanup, then the exception is raised again
ExceptHandler ==
    /\ pc = "except"
    /\ preprocessed_cache' = ClearedCache(preprocessed_cache)
    /\ features_to_concat' = DroppedList(features_to_concat)
    /\ features_cat_to_concat' = DroppedList(features_cat_to_concat)
    /\ raised' = pending_exc
    /\ pending_exc' = None
    /\ pc' = "failed"
    /\ UNCHANGED <<cfgVars, callVars, features_specs, listVars, features_stats, stats_instance,
                   graphVars, concat_all, model, poolVars, idx, result, init_error>>

(***************************************************************************)
(* _get_cached_or_process, called on a constructed orchestrator before the *)
(* build (lines 346-364).                                                  *)
(***************************************************************************)
\* what a processor function may return
ProcessedValues == {"t1", "t2"}

\* self._preprocessed_cache after a call whose processor would return `processed`
CacheAfter(caching, cache, feature_name, processed) ==
    IF ~caching \/ ~DictHas(TheVal(cache), feature_name)
    THEN (IF caching THEN Some(DictSet(TheVal(cache), feature_name, processed)) ELSE cache)
    ELSE cache

GetCachedOrProcess(feature_name, processed) ==
    /\ pc = "idle"
    /\ preprocessed_cache' = CacheAfter(use_caching, preprocessed_cache, feature_name,
                                        processed)
    /\ UNCHANGED <<cfgVars, callVars, features_specs, listVars, features_stats, stats_instance,
                   graphVars, fuseVars, pc, poolVars, idx, pending_exc, raised, result,
                   init_error>>

\* a faulty variant of CachedOrProcessed: the call returns what its own
\* processor returns, the stored value is not looked at
CachedOrProcessedAlwaysFresh(caching, cache, feature_name, processed) == processed

\* line 359: whether the call invokes processor_fn
ProcessorInvoked(caching, cache, feature_name) ==
    ~caching \/ ~DictHas(TheVal(cache), feature_name)

\* what the call returns (lines 363-364)
CachedOrProcessed(caching, cache, feature_name, processed) ==
    IF ProcessorInvoked(caching, cache, feature_name)
    THEN processed
    ELSE DictGet(TheVal(cache), feature_name)

\* one call of _get_cached_or_process with its outcome, on an orchestrator
\* that is constructed, built or failed; at most MaxMemoCalls calls
MaxMemoCalls == 3

GetCachedOrProcessCall(feature_name, processed) ==
    /\ pc \in {"idle", "done", "failed"}
    /\ Len(memo_calls) < MaxMemoCalls
    /\ memo_calls' =
          Append(memo_calls,
                 [feature_name |-> feature_name,
                  processed |-> processed,
                  invoked |-> ProcessorInvoked(use_caching, preprocessed_cache, feature_name),
                  returned |-> CachedOrProcessed(use_caching, preprocessed_cache,
                                                 feature_name, processed)])
    /\ preprocessed_cache' = CacheAfter(use_caching, preprocessed_cache, feature_name,
                                        processed)
    /\ UNCHANGED <<cfgVars, features_specs, listVars, features_stats, stats_instance,
                   graphVars, fuseVars, pc, poolVars, idx, pending_exc, raised, result,
                   init_error, predictVars, ioVars, layerVars>>

(***************************************************************************)
(* The specifications.                                                     *)
(***************************************************************************)
Next ==
    \/ Construct
    \/ BuildStart
    \/ NextStatsGroup
    \/ \E i \in 1..Len(tasks) : RunInputTask(i)
    \/ JoinInputs
    \/ NextKindBatch
    \/ \E i \in 1..Len(tasks) : RunBuildTask(i)
    \/ WaitResult
    \/ ExitBatchPool
    \/ CrossStep
    \/ TextStep
    \/ DateStep
    \/ PrepareOutputs
    \/ BuildModel
    \/ ExceptHandler

Spec == Init /\ [][Next]_vars

(***************************************************************************)
(* SpecCache: the orchestrator with calls of _get_cached_or_process        *)
(* between the construction and the build, so that a build starts with a   *)
(* filled memo.                                                            *)
(***************************************************************************)
CacheProfiles ==
    { Profile(StrDecl(s_float_normalized), "numeric_stats", Some(NumericStats)),
      Profile(StrDecl(s_float_normalized), "numeric_stats", Some(NumericStatsNoVar)),
      Profile(StrDecl(s_text), "", None),
      Profile(StrDecl(s_date), "", None),
      Profile(OneHotCategorical, "categorical_stats", Some(VocabStats(1))) }

CacheConfigs ==
    { DefaultConfig,
      [DefaultConfig EXCEPT !.caching = FALSE],
      [DefaultConfig EXCEPT !.overwrite = TRUE] }

InitCache ==
    /\ \E n \in 0..MaxFeatures :
         \E ps \in [1..n -> CacheProfiles] :
            \E c \in CacheConfigs : Arguments(ps, c)
    /\ output_mode \in {"concat", "dict"}
    /\ saved = None
    /\ date_in = << >>
    /\ Unbuilt

NextCache ==
    \/ Next
    \/ \E feature_name \in DictKeySet(features_specs) :
         \E processed \in ProcessedValues : GetCachedOrProcess(feature_name, processed)

SpecCache == InitCache /\ [][NextCache]_vars

(***************************************************************************)
(* SpecNorm: the construction alone, over declarations of every form.      *)
(***************************************************************************)
LowerChar(c) ==
    IF \E i \in 1..Len(UpperChars) : UpperChars[i] = c
    THEN LowerChars[CHOOSE i \in 1..Len(UpperChars) : UpperChars[i] = c]
    ELSE c
\* a type string in lower case, and with its first letter alone in upper case
Lowered(s) == [i \in 1..Len(s) |-> LowerChar(s[i])]
Capitalized(s) == [i \in 1..Len(s) |-> IF i = 1 THEN s[i] ELSE LowerChar(s[i])]

\* type strings that name a tag in some letter case
KnownTypeStrings ==
    UNION { { FeatureTypeName(t), Lowered(FeatureTypeName(t)),
              Capitalized(FeatureTypeName(t)) } : t \in FeatureType }

\* type strings that name no tag
UnknownTypeStrings ==
    { <<"f","l","o","a","t","y">>, <<"t","e","x","t","s">>, <<"N","u","m">>, << >> }

NormDecls ==
    { StrDecl(s) : s \in KnownTypeStrings \cup UnknownTypeStrings }
    \cup { EnumDecl(t) : t \in FeatureType }
    \cup { OtherDecl, OneHotCategorical,
           InstanceDecl("NumericalFeature", "FLOAT_RESCALED", << >>, [scale |-> 2], ""),
           InstanceDecl("TextFeature", "TEXT", << >>, EmptyKw, ""),
           InstanceDecl("DateFeature", "DATE", << >>, [add_season |-> TRUE], ""),
           CustomDecl("FLOAT", <<"Rescaling">>, [scale |-> 2]),
           CustomDecl("DATE", <<"date_parsing">>, EmptyKw),
           CustomDecl("", <<"Rescaling">>, EmptyKw) }

InitNorm ==
    /\ \E n \in 0..MaxFeatures :
         \E ds \in [1..n -> NormDecls] :
            specs_arg = [i \in 1..n |-> <<NamePool[i], ds[i]>>]
    /\ computed_stats = EmptyDict
    /\ stats_arg = EmptyDict
    /\ feature_crosses = << >>
    /\ overwrite_stats = FALSE
    /\ use_caching = TRUE
    /\ transfo_nr_blocks = 0
    /\ transfo_placement = "categorical"
    /\ output_mode = "concat"
    /\ saved = None
    /\ date_in = << >>
    /\ Unbuilt

NextNorm == Construct

SpecNorm == InitNorm /\ [][NextNorm]_vars

(***************************************************************************)
(* Properties of the error path of build_preprocessor.                     *)
(***************************************************************************)
\* the futures of the current pool whose build raised
RaisedTasks == {i \in 1..Len(tasks) : tasks[i].status = "raised"}

\* C1: if exactly one of the N per-feature builds of a batch raises an
\* exception E, build_preprocessor does not return: it raises E itself, the
\* same exception object (same type, same key, raised for the same feature),
\* whatever N and whichever feature failed.
C1_SingleFailureIsReraisedUnchanged ==
    /\ (RaisedTasks # {} /\ pc # "batch_wait") => pc \in {"except", "failed"}
    /\ (pc = "failed" /\ Cardinality(RaisedTasks) = 1)
          => /\ \A i \in RaisedTasks : raised = tasks[i].exc
             /\ result = None

\* a build of two features failed: the first built, the second raised, and
\* the caller got the second one's exception
C1_SecondOfTwoFailed ==
    /\ pc = "failed"
    /\ Len(tasks) = 2
    /\ tasks[1].status = "done"
    /\ tasks[2].status = "raised"
    /\ raised = tasks[2].exc
    /\ TheVal(raised).origin = tasks[2].feature

\* C2: after build_preprocessor raised because a per-feature build failed,
\* outputs and outputs_categorical hold no handle the failed attempt wrote
\* (those of the features of the batch that built included) and no model is set.
C2_FailedBuildExposesNoPartialGraph ==
    (pc = "failed" /\ RaisedTasks # {})
        => /\ outputs = EmptyDict
           /\ outputs_categorical = EmptyDict
           /\ model = None

\* the build of two numeric features raised the KeyError of the one without
\* a variance, and outputs holds the handle of the other
C2_BuiltFeatureLeftInOutputs ==
    /\ pc = "failed"
    /\ Len(tasks) = 2
    /\ Cardinality(RaisedTasks) = 1
    /\ TheVal(raised).type = "KeyError"
    /\ TheVal(raised).key = <<"var">>
    /\ Len(outputs) = 1
    /\ \E i \in 1..2 : tasks[i].status = "done" /\ DictHas(outputs, tasks[i].feature)
    /\ model = None

\* C3: once build_preprocessor has returned or raised, the memo holds no
\* entry and the two intermediate concat lists are dropped; an exception
\* reaches the caller only after that cleanup.
C3_CleanupAfterEveryBuild ==
    /\ (pc = "done") = IsSome(result)
    /\ (pc = "failed") = IsSome(raised)
    /\ (IsSome(result) \/ IsSome(raised))
          => /\ IsSome(preprocessed_cache) => TheVal(preprocessed_cache) = EmptyDict
             /\ features_to_concat = None
             /\ features_cat_to_concat = None

\* a CONCAT build with the memo enabled returned: the fused tensor exists, so
\* the concat lists were set, and they are dropped
C3_ConcatBuildCleaned ==
    /\ pc = "done"
    /\ output_mode = "concat"
    /\ use_caching
    /\ IsSome(concat_all)
    /\ preprocessed_cache = Some(EmptyDict)
    /\ features_to_concat = None
    /\ features_cat_to_concat = None

(***************************************************************************)
(* Properties of the worker pools.                                         *)
(***************************************************************************)
\* a mapping as its slots: key, and the shape and dtype of the handle
Slots(map) == { <<map[i][1], map[i][2].shape, map[i][2].dtype>> : i \in 1..Len(map) }

\* the value stored under a key, None when the key is absent
Slot(map, k) == IF DictHas(map, k) THEN Some(DictGet(map, k)) ELSE None

BatchFeatures == {tasks[i].feature : i \in 1..Len(tasks)}

\* a mapping without the keys of the current batch
RECURSIVE WithoutBatch(_)
WithoutBatch(map) ==
    IF map = << >> THEN << >>
    ELSE (IF Head(map)[1] \in BatchFeatures THEN << >> ELSE << Head(map) >>)
         \o WithoutBatch(Tail(map))

\* what the builder of each future of the current batch gives for its feature
BatchResults ==
    [i \in 1..Len(tasks) |->
        RunBuilder(tasks[i].kind, features_specs, output_mode, tasks[i].feature,
                   tasks[i].input_layer, tasks[i].stats)]

\* outputs and outputs_categorical after the builders of the current batch
\* ran one at a time in the order `order`, from the maps `maps`; `built`
\* holds what each builder stores
RECURSIVE OneAtATime(_, _, _, _)
OneAtATime(maps, built, order, k) ==
    IF k > Len(order) THEN maps
    ELSE LET t == tasks[order[k]]
             r == built[order[k]]
         IN OneAtATime(
                [outputs |-> IF r.map = "outputs"
                             THEN DictSet(maps.outputs, t.feature, r.handle)
                             ELSE maps.outputs,
                 outputs_categorical |->
                             IF r.map = "outputs_categorical"
                             THEN DictSet(maps.outputs_categorical, t.feature, r.handle)
                             ELSE maps.outputs_categorical],
                built, order, k + 1)

BatchBuilt ==
    /\ pc = "batch_wait"
    /\ tasks # << >>
    /\ \A i \in 1..Len(tasks) : tasks[i].status = "done"

C4_SameAsOneAtATime ==
    /\ pc = "batch_wait"
          => \A i, j \in 1..Len(tasks) : i # j => tasks[i].feature # tasks[j].feature
    /\ BatchBuilt
          => LET built == BatchResults
                 before == [outputs |-> WithoutBatch(outputs),
                            outputs_categorical |-> WithoutBatch(outputs_categorical)]
                 now == [outputs |-> Slots(outputs),
                         outputs_categorical |-> Slots(outputs_categorical)]
             IN \A order \in Permutations(1..Len(tasks)) :
                   LET seq == OneAtATime(before, built, order, 1)
                   IN /\ now.outputs = Slots(seq.outputs)
                      /\ now.outputs_categorical = Slots(seq.outputs_categorical)

C4_WorkerWritesOwnSlot ==
    \A i \in 1..Len(tasks) :
        (pc = "batch_wait" /\ tasks[i].status = "pending" /\ tasks'[i].status # "pending")
           => \A k \in DictKeySet(outputs) \cup DictKeySet(outputs')
                        \cup DictKeySet(outputs_categorical)
                        \cup DictKeySet(outputs_categorical') :
                 k # tasks[i].feature
                    => /\ Slot(outputs', k) = Slot(outputs, k)
                       /\ Slot(outputs_categorical', k) = Slot(outputs_categorical, k)

\* C4: for the N features of one batch, every interleaving of the workers
\* leaves outputs and outputs_categorical with the keys, and under each key
\* the shape and dtype, that building the features one at a time gives in
\* every sequential order; a worker writes only the slot of its own feature
\* and no two workers of a batch have the same slot.
C4_ParallelBatchEqualsSequential ==
    []C4_SameAsOneAtATime /\ [][C4_WorkerWritesOwnSlot]_vars

\* a batch of two features is built and the second worker finished first
C4_SecondWorkerFinishedFirst ==
    /\ BatchBuilt
    /\ Len(tasks) = 2
    /\ done_order = << tasks[2].feature, tasks[1].feature >>
    /\ \/ DictKeySet(outputs) = BatchFeatures
       \/ DictKeySet(outputs_categorical) = BatchFeatures

\* the position of a key in a mapping
KeyIndex(map, k) == CHOOSE i \in 1..Len(map) : map[i][1] = k

\* the names of a sequence `names` that are keys of `map` follow, in `map`,
\* the order they have in `names`
KeepsOrder(map, names) ==
    \A i, j \in 1..Len(names) :
        (i < j /\ DictHas(map, names[i]) /\ DictHas(map, names[j]))
            => KeyIndex(map, names[i]) < KeyIndex(map, names[j])

\* the names of the features of each batch the scheduler submits, in
\* submission order
SubmittedBatches ==
    { DictKeys(FeatureGroups(features_stats[g][2], text_features, date_features)[k]) :
        g \in 1..Len(features_stats), k \in 1..Len(KindNames) }

\* C5: for fixed specs and statistics the CONCAT graph is the same in every
\* interleaving: at fusion time outputs and outputs_categorical iterate the
\* features of a batch in one order, whichever worker finished first.  The
\* workers may finish in submission order, so that one order is the
\* submission order.
C5_ConcatOrderIndependentOfWorkers ==
    (pc = "model" /\ output_mode = "concat")
        => /\ features_to_concat = Some(DictValues(outputs))
           /\ features_cat_to_concat = Some(DictValues(outputs_categorical))
           /\ \A names \in SubmittedBatches :
                 /\ KeepsOrder(outputs, names)
                 /\ KeepsOrder(outputs_categorical, names)

\* two numeric features, age declared before city, are about to be fused
\* with city first
C5_FusedInCompletionOrder ==
    /\ pc = "model"
    /\ output_mode = "concat"
    /\ DictKeys(specs_arg) = <<"age", "city">>
    /\ numeric_features = <<"age", "city">>
    /\ Len(features_stats) = 1
    /\ DictKeys(features_stats[1][2]) = <<"age", "city">>
    /\ DictKeys(outputs) = <<"city", "age">>
    /\ features_to_concat = Some(DictValues(outputs))
    /\ TheVal(concat_all).parts[1].inputs[1].name = "city"

(***************************************************************************)
(* Properties of the DICT and CONCAT outputs.                              *)
(***************************************************************************)
\* the scenario of the specification: age, a normalized float with mean 30
\* and variance 25, and city, a categorical feature with a vocabulary of 2
AgeStringCity ==
    << Profile(StrDecl(s_float_normalized), "numeric_stats", Some(NumericStats)),
       Profile(StrDecl(s_string_categorical), "categorical_stats", Some(VocabStats(2))) >>
AgeOneHotCity ==
    << Profile(StrDecl(s_float_normalized), "numeric_stats", Some(NumericStats)),
       Profile(OneHotCategorical, "categorical_stats", Some(VocabStats(2))) >>

Declared(ps) == specs_arg = SpecsOf(ps) /\ features_stats = AssembleStats(ps, 1)

\* C6: in DICT mode the output mapping of the model has one key per declared
\* feature that was built, categorical features included; for age (numeric)
\* and city (string categorical) its keys are age, city in that order.  (A
\* model without any output is left aside: processor.py does not decide
\* whether tf.keras.Model accepts an empty mapping.)
C6_DictOutputHasEveryBuiltFeature ==
    (pc = "done" /\ output_mode = "dict")
        => /\ TheVal(model).outputs # EmptyDict
                 => \A i \in 1..Len(specs_arg) :
                       (DictHas(outputs, specs_arg[i][1])
                          \/ DictHas(outputs_categorical, specs_arg[i][1]))
                       => DictHas(TheVal(model).outputs, specs_arg[i][1])
           /\ Declared(AgeStringCity)
                 => DictKeys(TheVal(model).outputs) = <<"age", "city">>

\* the DICT model of age and city is built and its output mapping has the
\* key age alone; the handle of city is in outputs_categorical
C6_CityMissingFromDictOutput ==
    /\ pc = "done"
    /\ output_mode = "dict"
    /\ Declared(AgeStringCity)
    /\ DictKeys(TheVal(model).outputs) = <<"age">>
    /\ DictKeys(outputs_categorical) = <<"city">>

\* C7: in DICT mode the keys of the output mapping are the inputs that have
\* an output, in the order the features were declared, then the other
\* computed keys; the order is the same in every interleaving of the workers
\* that create the placeholders.
C7_DictKeysInDeclarationOrder ==
    (pc = "done" /\ output_mode = "dict")
        => LET keys == DictKeys(TheVal(model).outputs)
               IsInput(k) == DictHas(inputs, k)
               IsNoInput(k) == ~DictHas(inputs, k)
           IN /\ keys = SelectSeq(keys, IsInput) \o SelectSeq(keys, IsNoInput)
              /\ \A g \in 1..Len(features_stats) :
                    KeepsOrder(TheVal(model).outputs, DictKeys(features_stats[g][2]))

\* the DICT model of two numeric features, age declared before city, is
\* built with the keys city, age: the placeholder of city was stored first
C7_DictKeysInPlaceholderOrder ==
    /\ pc = "done"
    /\ output_mode = "dict"
    /\ DictKeys(specs_arg) = <<"age", "city">>
    /\ Len(features_stats) = 1
    /\ DictKeys(features_stats[1][2]) = <<"age", "city">>
    /\ DictKeys(inputs) = <<"city", "age">>
    /\ DictKeys(TheVal(model).outputs) = <<"city", "age">>

\* the declarations the width rule of C8 speaks of
IsNormalizedNumeric(d) ==
    d.form = "str" /\ StrUpper(d.str) = FeatureTypeName("FLOAT_NORMALIZED")
IsOneHotCategorical(d) ==
    /\ d.form = "instance"
    /\ d.cls = "CategoricalFeature"
    /\ d.category_encoding = "ONE_HOT_ENCODING"
    /\ d.preprocessors = << >>

\* 1 for a normalized numeric feature, V + 1 for a one-hot categorical
\* feature with a vocabulary of V tokens
DeclaredWidth(i) ==
    IF IsNormalizedNumeric(specs_arg[i][2]) THEN 1
    ELSE Len(DictGet(DictGet(features_stats, "categorical_stats"), specs_arg[i][1]).vocab) + 1

RECURSIVE SumOfWidths(_)
SumOfWidths(i) == IF i > Len(specs_arg) THEN 0 ELSE DeclaredWidth(i) + SumOfWidths(i + 1)

\* C8: in CONCAT mode, with normalized numeric and one-hot categorical
\* features, the feature dimension of the fused tensor is the sum of the
\* widths, 1 per normalized numeric feature and V + 1 per one-hot categorical
\* feature of V tokens; age plus city with a vocabulary of 2 gives 4.
C8_ConcatWidthIsSumOfWidths ==
    (pc = "done" /\ output_mode = "concat" /\ feature_crosses = << >>
       /\ transfo_nr_blocks = 0)
        => /\ (\A i \in 1..Len(specs_arg) :
                  IsNormalizedNumeric(specs_arg[i][2])
                     \/ IsOneHotCategorical(specs_arg[i][2]))
                 => TheVal(result).output_dims = << SumOfWidths(1) >>
           /\ Declared(AgeOneHotCity) => TheVal(result).output_dims = << 4 >>

\* the CONCAT model of age and one-hot city is built, with 4 output features
C8_AgeAndCityBuilt ==
    /\ pc = "done"
    /\ output_mode = "concat"
    /\ feature_crosses = << >>
    /\ transfo_nr_blocks = 0
    /\ Declared(AgeOneHotCity)
    /\ TheVal(model).outputs.shape = << 4 >>
    /\ TheVal(result).output_dims = << 4 >>

(***************************************************************************)
(* Properties of the normaliser.                                           *)
(***************************************************************************)
\* the list of the kind of a type tag
ListOfTag(t) ==
    IF t \in NumericTypes THEN numeric_features
    ELSE IF t \in CategoricalTypes THEN categorical_features
    ELSE IF t = "TEXT" THEN text_features
    ELSE date_features

\* the tags a type string names, letter case aside
TagsNamedBy(s) == {t \in FeatureType : FeatureTypeName(t) = StrUpper(s)}

\* C9: a feature declared by a string that names a type tag in any letter
\* case gets a descriptor of that tag, listed under the tag's kind; for a
\* string that names no tag the normalization fails with an unsupported
\* feature type error that names the feature.
C9_TypeStringResolvedOrRejectedByName ==
    /\ pc = "idle"
          => \A i \in 1..Len(specs_arg) :
                LET name == specs_arg[i][1]
                    d == specs_arg[i][2]
                IN d.form = "str"
                      => /\ TagsNamedBy(d.str) # {}
                         /\ \A t \in TagsNamedBy(d.str) :
                               /\ DictGet(features_specs, name).feature_type = t
                               /\ InSeq(name, ListOfTag(t))
    /\ pc = "init_failed"
          => \A i \in 1..Len(specs_arg) :
                (specs_arg[i][1] = TheVal(init_error).origin
                   /\ specs_arg[i][2].form = "str")
                   => /\ TagsNamedBy(specs_arg[i][2].str) = {}
                      /\ TheVal(init_error).type = "ValueError"
                      /\ TheVal(init_error).key = <<"Unsupported feature type">>
                      /\ TheVal(init_error).feature = Some(specs_arg[i][1])

\* the declaration {"age": "floaty"} fails with KeyError('FLOATY'), which
\* does not name the feature
C9_UnknownStringRaisesKeyError ==
    /\ pc = "init_failed"
    /\ specs_arg = << <<"age", StrDecl(<<"f","l","o","a","t","y">>)>> >>
    /\ init_error = Some(Exc("KeyError", <<"F","L","O","A","T","Y">>, None, "age"))

\* a name of `names` is in `list` exactly once
Once(name, list) == Cardinality({i \in 1..Len(list) : list[i] = name}) = 1

\* `list` is a subsequence of `names`
IsSubsequence(list, names) ==
    /\ \A i \in 1..Len(list) : InSeq(list[i], names)
    /\ \A i, j \in 1..Len(list) :
          i < j => (CHOOSE k \in 1..Len(names) : names[k] = list[i])
                     < (CHOOSE k \in 1..Len(names) : names[k] = list[j])

\* C10: after the normalization of a feature mapping every feature name is
\* once in one of numeric_features, categorical_features, text_features,
\* date_features and in none of the others, each list is in declaration
\* order, and the lists together hold the keys of the descriptor mapping.
C10_EveryNameInOneKindList ==
    pc = "idle"
        => LET all == numeric_features \o categorical_features \o text_features
                        \o date_features
           IN /\ DictKeys(features_specs) = DictKeys(specs_arg)
              /\ \A i \in 1..Len(specs_arg) : Once(specs_arg[i][1], all)
              /\ SeqToSet(all) = DictKeySet(features_specs)
              /\ IsSubsequence(numeric_features, DictKeys(specs_arg))
              /\ IsSubsequence(categorical_features, DictKeys(specs_arg))
              /\ IsSubsequence(text_features, DictKeys(specs_arg))
              /\ IsSubsequence(date_features, DictKeys(specs_arg))

\* two features of different kinds are normalised: a date declared first
\* and a numeric feature declared second
C10_DateThenNumericListed ==
    /\ pc = "idle"
    /\ Len(specs_arg) = 2
    /\ date_features = << specs_arg[1][1] >>
    /\ numeric_features = << specs_arg[2][1] >>
    /\ categorical_features = << >>
    /\ text_features = << >>

(***************************************************************************)
(* Properties of the validation at the start of build_preprocessor.        *)
(***************************************************************************)
\* the two errors of lines 898-905
NoFeaturesError == Exc("ValueError", <<"No features specified">>, None, "")
NoStatsInstanceError == Exc("ValueError", <<"stats_instance not initialized">>, None, "")

\* build_preprocessor has been called
BuildCalled == pc \notin {"constructed", "init_failed", "idle"}

\* the condition of a validation failure, on the state the constructor left
ValidationFails ==
    \/ Len(features_specs) = 0
    \/ (features_stats = EmptyDict \/ overwrite_stats) /\ ~stats_instance

\* C11: build_preprocessor called with no normalized feature, or with no
\* statistics (or with an overwrite requested) while there is no statistics
\* collaborator, raises the ValueError of the validation and nothing else
\* happens: the call reaches no later step, and inputs, signature, outputs and
\* outputs_categorical are after the failed call what they were before it
\* (empty, as the constructor left them), and no model is set.
C11_ValidationFailureBuildsNothing ==
    (BuildCalled /\ ValidationFails) =>
        /\ pc \in {"except", "failed"}
        /\ (pc = "except" =>
                pending_exc \in {Some(NoFeaturesError), Some(NoStatsInstanceError)})
        /\ (pc = "failed" => raised \in {Some(NoFeaturesError), Some(NoStatsInstanceError)})
        /\ (Len(features_specs) = 0 => Some(NoFeaturesError) \in {pending_exc, raised})
        /\ inputs = EmptyDict
        /\ signature = EmptyDict
        /\ outputs = EmptyDict
        /\ outputs_categorical = EmptyDict
        /\ model = None
        /\ result = None

\* two features are declared with their statistics and an overwrite is
\* requested: the call has failed for want of a statistics collaborator
C11_OverwriteWithoutCollaboratorFailed ==
    /\ pc = "failed"
    /\ Len(features_specs) = 2
    /\ features_stats # EmptyDict
    /\ overwrite_stats
    /\ ~stats_instance
    /\ raised = Some(NoStatsInstanceError)

(***************************************************************************)
(* SpecStats: the build over statistics records that lack a key, features  *)
(* with custom steps and the numeric types.                                *)
(***************************************************************************)
s_float == <<"f","l","o","a","t">>

OtherNumericStats == [mean |-> 10, var |-> 4, dtype |-> "float32"]
NumericStatsNoMean == [var |-> 25, dtype |-> "float32"]

CustomNumeric == CustomDecl("FLOAT", <<"Rescaling">>, [scale |-> 2])
CustomCategorical == CustomDecl("STRING_CATEGORICAL", <<"Hashing">>, [num_bins |-> 4])
CustomText == CustomDecl("TEXT", <<"TextVectorization">>, EmptyKw)

StatsProfiles ==
    { Profile(StrDecl(s_float_normalized), "numeric_stats", Some(NumericStats)),
      Profile(StrDecl(s_float), "numeric_stats", Some(NumericStats)),
      Profile(StrDecl(s_float), "numeric_stats", Some(OtherNumericStats)),
      Profile(InstanceDecl("NumericalFeature", "FLOAT_RESCALED", << >>, [scale |-> 2], ""),
              "numeric_stats", Some(NumericStats)),
      Profile(StrDecl(s_float_normalized), "numeric_stats", Some(NumericStatsNoVar)),
      Profile(StrDecl(s_float_normalized), "numeric_stats", Some(NumericStatsNoMean)),
      Profile(StrDecl(s_string_categorical), "categorical_stats", Some(VocabStats(MaxVocab))),
      Profile(StrDecl(s_string_categorical), "categorical_stats", Some(DtypeOnlyStats)),
      Profile(StrDecl(s_text), "", None),
      Profile(StrDecl(s_text), "text", Some(DtypeOnlyStats)),
      Profile(StrDecl(s_text), "text", Some(VocabStats(1))),
      Profile(CustomNumeric, "numeric_stats", Some(NumericStats)),
      Profile(CustomNumeric, "numeric_stats", Some(NumericStatsNoVar)),
      Profile(CustomCategorical, "categorical_stats", Some(DtypeOnlyStats)),
      Profile(CustomText, "text", Some(DtypeOnlyStats)) }

InitStats ==
    /\ \E n \in 0..MaxFeatures :
         \E ps \in [1..n -> StatsProfiles] : Arguments(ps, DefaultConfig)
    /\ output_mode \in {"concat", "dict"}
    /\ saved = None
    /\ date_in = << >>
    /\ Unbuilt

SpecStats == InitStats /\ [][Next]_vars

(***************************************************************************)
(* Properties of the builders on incomplete statistics.                    *)
(***************************************************************************)
\* the statistics keys the builder of a kind reads (lines 484-485, 565, 646)
RequiredKeys(kind) ==
    CASE kind = "numeric" -> <<"mean", "var">>
      [] kind = "categorical" -> <<"vocab">>
      [] kind = "text" -> <<"vocab">>
      [] OTHER -> << >>

\* the first required key a statistics record lacks, as a KeyError key
MissesKey(kind, stats) ==
    \E j \in 1..Len(RequiredKeys(kind)) : RequiredKeys(kind)[j] \notin DOMAIN stats
FirstMissing(kind, stats) ==
    << RequiredKeys(kind)[CHOOSE j \in 1..Len(RequiredKeys(kind)) :
                            /\ RequiredKeys(kind)[j] \notin DOMAIN stats
                            /\ \A h \in 1..(j - 1) : RequiredKeys(kind)[h] \in DOMAIN stats] >>

\* statistics records that lack a key
IncompleteStats == {NumericStatsNoVar, NumericStatsNoMean, DtypeOnlyStats}

\* the exception that is propagating or was delivered, if any
CurrentExc == IF IsSome(pending_exc) THEN pending_exc ELSE raised

\* a text feature has a statistics entry that holds a vocabulary
HasTextVocab(feature_name) ==
    /\ DictHas(features_stats, "text")
    /\ DictHas(DictGet(features_stats, "text"), feature_name)
    /\ "vocab" \in DOMAIN DictGet(DictGet(features_stats, "text"), feature_name)

ExceptionsSeen ==
    {tasks[i].exc : i \in 1..Len(tasks)} \cup {pending_exc, raised}

\* a KeyError on a statistics key
IsStatisticsError(e) ==
    /\ e.type = "KeyError"
    /\ e.key \in {<<"mean">>, <<"var">>, <<"vocab">>}

\* the descriptor of a declared feature carries custom steps
HasCustomSteps(feature_name) ==
    /\ DictHas(features_specs, feature_name)
    /\ DictGet(features_specs, feature_name).preprocessors # << >>

\* C13: a statistics error (a KeyError on mean, var or vocab) is raised only
\* for a feature that has no custom pipeline: no build step of a feature whose
\* descriptor carries custom preprocessing steps raises one, whatever its
\* statistics record lacks.
C13_StatisticsErrorOnlyWithoutCustomSteps ==
    \A o \in ExceptionsSeen :
        (IsSome(o) /\ IsStatisticsError(TheVal(o))) => ~HasCustomSteps(TheVal(o).origin)

\* the one declared feature has the custom step Rescaling and a statistics
\* record without var: its build step raised KeyError('var') and the build
\* failed, nothing was built for it
C13_CustomNumericWithoutVarFailed ==
    /\ pc = "failed"
    /\ DictKeys(features_specs) = <<"age">>
    /\ DictGet(features_specs, "age").preprocessors = <<"Rescaling">>
    /\ features_stats = << <<"numeric_stats", << <<"age", NumericStatsNoVar>> >> >> >>
    /\ raised = Some(Exc("KeyError", <<"var">>, None, "age"))
    /\ outputs = EmptyDict

(***************************************************************************)
(* batch_predict (lines 1034-1073) and _predict_batch_parallel (lines      *)
(* 1009-1031).  batch_predict is a generator: the call makes it, each      *)
(* next() of the consumer runs it to its next yield; model.predict is      *)
(* taken to return.                                                        *)
(***************************************************************************)
\* the largest number of batches of a dataset
MaxBatches == 3

\* the batch_size of the constructor when none is passed (line 126)
DefaultBatchSize == 50000

BatchPool == <<"b1", "b2", "b3", "b4", "b5">>
Datasets == { SubSeq(BatchPool, 1, n) : n \in 0..MaxBatches }

\* the batch_size argument: 0 stands for None
BatchSizes == 0..MaxBatches

\* a model passed to batch_predict
OtherModel == [inputs |-> EmptyDict, outputs |-> EmptyDict]

\* model.predict(batch)
Predict(m, batch) == [model |-> m, batch |-> batch]

\* the orchestrator exists and no build is under way in the caller's thread
Callable == pc \in {"idle", "done", "failed"}

\* the call: nothing of the body runs yet
BatchPredict(d, m, size, par) ==
    /\ Callable
    /\ bp_pc = "none"
    /\ bp_pc' = "created"
    /\ data' = d
    /\ bp_model' = m
    /\ bp_batch_size' = size
    /\ bp_parallel' = par
    /\ UNCHANGED <<buildVars, layerVars, memoVars, ioVars, bp_pos, batches, bp_futures, results, ri, yielded,
                   bp_raised>>

\* the first next(): lines 1049-1051
StartGenerator ==
    /\ Callable
    /\ bp_pc = "created"
    /\ IF IsNone(bp_model) /\ IsNone(model)
       THEN \* self.model is not set
            /\ bp_raised' = Some(Exc("AttributeError", <<"model">>, None, ""))
            /\ bp_pc' = "raised"
            /\ UNCHANGED <<bp_model, bp_batch_size>>
       ELSE /\ bp_model' = IF IsSome(bp_model) THEN bp_model ELSE model
            /\ bp_batch_size' = IF bp_batch_size # 0 THEN bp_batch_size ELSE DefaultBatchSize
            /\ bp_pc' = "loop"
            /\ UNCHANGED bp_raised
    /\ UNCHANGED <<buildVars, layerVars, memoVars, ioVars, data, bp_parallel, bp_pos, batches, bp_futures, results,
                   ri, yielded>>

\* a faulty variant of SequentialNext: a prediction is computed for every
\* second batch only
SequentialNextSkipping ==
    /\ Callable
    /\ bp_pc = "loop"
    /\ ~bp_parallel
    /\ IF bp_pos < Len(data)
       THEN /\ yielded' = IF bp_pos % 2 = 0
                          THEN Append(yielded, Predict(TheVal(bp_model), data[bp_pos + 1]))
                          ELSE yielded
            /\ bp_pos' = bp_pos + 1
            /\ UNCHANGED bp_pc
       ELSE /\ bp_pc' = "exhausted"
            /\ UNCHANGED <<yielded, bp_pos>>
    /\ UNCHANGED <<buildVars, layerVars, memoVars, ioVars, data, bp_model, bp_batch_size, bp_parallel, batches,
                   bp_futures, results, ri, bp_raised>>

\* a next() in the sequential mode (lines 1072-1073): the next batch is
\* predicted and yielded, or the generator ends
SequentialNext ==
    /\ Callable
    /\ bp_pc = "loop"
    /\ ~bp_parallel
    /\ IF bp_pos < Len(data)
       THEN /\ yielded' = Append(yielded, Predict(TheVal(bp_model), data[bp_pos + 1]))
            /\ bp_pos' = bp_pos + 1
            /\ UNCHANGED bp_pc
       ELSE /\ bp_pc' = "exhausted"
            /\ UNCHANGED <<yielded, bp_pos>>
    /\ UNCHANGED <<buildVars, layerVars, memoVars, ioVars, data, bp_model, bp_batch_size, bp_parallel, batches,
                   bp_futures, results, ri, bp_raised>>

\* executor.submit(model.predict, batch) for every batch (lines 1020-1022)
Submitted(group) == [i \in 1..Len(group) |-> [batch |-> group[i], status |-> "pending"]]

\* a faulty variant of CollectBatch: the batches left when the data ends are
\* not processed
CollectBatchDroppingRest ==
    /\ Callable
    /\ bp_pc = "loop"
    /\ bp_parallel
    /\ IF bp_pos < Len(data)
       THEN /\ bp_pos' = bp_pos + 1
            /\ batches' = Append(batches, data[bp_pos + 1])
            /\ IF Len(batches') >= bp_batch_size
               THEN /\ bp_futures' = Submitted(batches')
                    /\ results' = << >>
                    /\ bp_pc' = "pool_group"
               ELSE UNCHANGED <<bp_futures, results, bp_pc>>
       ELSE /\ bp_pc' = "exhausted"
            /\ UNCHANGED <<bp_pos, batches, bp_futures, results>>
    /\ UNCHANGED <<buildVars, layerVars, memoVars, ioVars, data, bp_model, bp_batch_size, bp_parallel, ri, yielded,
                   bp_raised>>

\* the loop over data in the parallel mode, one pass (lines 1056-1060), and
\* what follows it when the data ends (lines 1066-1067)
CollectBatch ==
    /\ Callable
    /\ bp_pc = "loop"
    /\ bp_parallel
    /\ IF bp_pos < Len(data)
       THEN /\ bp_pos' = bp_pos + 1
            /\ batches' = Append(batches, data[bp_pos + 1])
            /\ IF Len(batches') >= bp_batch_size
               THEN /\ bp_futures' = Submitted(batches')
                    /\ results' = << >>
                    /\ bp_pc' = "pool_group"
               ELSE UNCHANGED <<bp_futures, results, bp_pc>>
       ELSE IF batches # << >>
       THEN /\ bp_futures' = Submitted(batches)
            /\ results' = << >>
            /\ bp_pc' = "pool_rest"
            /\ UNCHANGED <<bp_pos, batches>>
       ELSE /\ bp_pc' = "exhausted"
            /\ UNCHANGED <<bp_pos, batches, bp_futures, results>>
    /\ UNCHANGED <<buildVars, layerVars, memoVars, ioVars, data, bp_model, bp_batch_size, bp_parallel, ri, yielded,
                   bp_raised>>

\* a worker finishes model.predict on its batch; as_completed hands the
\* finished futures to the loop of lines 1025-1027, which appends each result
PredictWorker(i) ==
    /\ bp_pc \in {"pool_group", "pool_rest"}
    /\ bp_futures[i].status = "pending"
    /\ bp_futures' = [bp_futures EXCEPT ![i].status = "done"]
    /\ results' = Append(results, Predict(TheVal(bp_model), bp_futures[i].batch))
    /\ UNCHANGED <<buildVars, layerVars, memoVars, ioVars, bp_pc, data, bp_model, bp_batch_size, bp_parallel,
                   bp_pos, batches, ri, yielded, bp_raised>>

\* _predict_batch_parallel returns its results list (line 1031)
PoolReturn ==
    /\ bp_pc \in {"pool_group", "pool_rest"}
    /\ \A i \in 1..Len(bp_futures) : bp_futures[i].status = "done"
    /\ bp_pc' = IF bp_pc = "pool_group" THEN "yield_group" ELSE "yield_rest"
    /\ ri' = 1
    /\ bp_futures' = << >>
    /\ UNCHANGED <<buildVars, layerVars, memoVars, ioVars, data, bp_model, bp_batch_size, bp_parallel, bp_pos,
                   batches, results, yielded, bp_raised>>

\* the loops over results (lines 1061-1063 and 1068-1069), one pass
YieldResult ==
    /\ Callable
    /\ bp_pc \in {"yield_group", "yield_rest"}
    /\ IF ri <= Len(results)
       THEN /\ yielded' = Append(yielded, results[ri])
            /\ ri' = ri + 1
            /\ UNCHANGED <<bp_pc, batches>>
       ELSE IF bp_pc = "yield_group"
       THEN /\ batches' = << >>
            /\ bp_pc' = "loop"
            /\ UNCHANGED <<yielded, ri>>
       ELSE /\ bp_pc' = "exhausted"
            /\ UNCHANGED <<yielded, ri, batches>>
    /\ UNCHANGED <<buildVars, layerVars, memoVars, ioVars, data, bp_model, bp_batch_size, bp_parallel, bp_pos,
                   bp_futures, results, bp_raised>>

(***************************************************************************)
(* SpecPredict: an orchestrator with at most one feature, built or not,    *)
(* and one batch_predict generator run by its consumer.                    *)
(***************************************************************************)
InitPredict ==
    /\ \E n \in 0..1 :
         Arguments([i \in 1..n |->
                      Profile(StrDecl(s_float_normalized), "numeric_stats", Some(NumericStats))],
                   DefaultConfig)
    /\ output_mode = "concat"
    /\ saved = None
    /\ date_in = << >>
    /\ Unbuilt

NextPredict ==
    \/ Next
    \/ \E d \in Datasets : \E m \in {None, Some(OtherModel)} :
         \E size \in BatchSizes : \E par \in BOOLEAN : BatchPredict(d, m, size, par)
    \/ StartGenerator
    \/ SequentialNext
    \/ CollectBatch
    \/ \E i \in 1..Len(bp_futures) : PredictWorker(i)
    \/ PoolReturn
    \/ YieldResult

SpecPredict == InitPredict /\ [][NextPredict]_vars

(***************************************************************************)
(* Properties of batch_predict.                                            *)
(***************************************************************************)
\* the generator has run past lines 1049-1051
Started == bp_pc \notin {"none", "created", "raised"}

\* the predictions of the first n batches of the data, in input order
PredictionsInOrder(n) == [i \in 1..n |-> Predict(TheVal(bp_model), data[i])]

\* C14: with parallel=False batch_predict yields exactly one prediction per
\* incoming batch in strict input order: at every moment the values yielded so
\* far are the predictions of the batches taken so far, the i-th value being
\* the model's prediction of the i-th batch, and the generator ends when
\* every batch of the data was taken.
C14_SequentialYieldsInInputOrder ==
    (Started /\ ~bp_parallel) =>
        /\ yielded = PredictionsInOrder(bp_pos)
        /\ (bp_pc = "exhausted" => bp_pos = Len(data))

\* three batches were predicted one after the other and the generator ended
C14_ThreeBatchesYielded ==
    /\ bp_pc = "exhausted"
    /\ ~bp_parallel
    /\ data = <<"b1", "b2", "b3">>
    /\ Len(yielded) = 3
    /\ yielded[3] = Predict(TheVal(bp_model), "b3")

\* the place in the data of the batch a prediction was made from
BatchIndex(prediction) == CHOOSE i \in 1..Len(data) : data[i] = prediction.batch

\* the group a batch of the data is collected in
GroupOf(i) == (i - 1) \div bp_batch_size

\* C15: with parallel=True batch_predict yields exactly one prediction for
\* every input batch, none lost and none twice; the batches go to the worker
\* pool in groups of at most batch_size; inside a group the order is free, but
\* every prediction of an earlier group is yielded before any prediction of a
\* later group; and the last, partial group is processed too: when the
\* generator ends, every batch of the data has its prediction among the
\* values yielded.
C15_ParallelYieldsEveryBatchGroupwise ==
    (Started /\ bp_parallel) =>
        /\ \A p \in 1..Len(yielded) :
             /\ \E i \in 1..bp_pos : yielded[p] = Predict(TheVal(bp_model), data[i])
             /\ \A q \in 1..Len(yielded) : yielded[p] = yielded[q] => p = q
        /\ \A p, q \in 1..Len(yielded) :
             p < q => GroupOf(BatchIndex(yielded[p])) <= GroupOf(BatchIndex(yielded[q]))
        /\ Len(batches) <= bp_batch_size
        /\ Len(bp_futures) <= bp_batch_size
        /\ (bp_pc = "exhausted" =>
              /\ bp_pos = Len(data)
              /\ Len(yielded) = Len(data)
              /\ \A i \in 1..Len(data) :
                    \E p \in 1..Len(yielded) : yielded[p] = Predict(TheVal(bp_model), data[i]))

\* three batches in groups of two: the first group came back in the other
\* order, then the partial group of the third batch
C15_GroupReorderedThenPartialGroup ==
    /\ bp_pc = "exhausted"
    /\ bp_parallel
    /\ bp_batch_size = 2
    /\ data = <<"b1", "b2", "b3">>
    /\ yielded = << Predict(TheVal(bp_model), "b2"), Predict(TheVal(bp_model), "b1"),
                    Predict(TheVal(bp_model), "b3") >>

(***************************************************************************)
(* save_model (lines 1076-1123) and load_model (lines 1125-1149).          *)
(***************************************************************************)
\* the largest number of calls of save_model and load_model in a run
MaxCalls == 2

\* serialize_dtype: a dtype object becomes its name, a string
SerializeDtype(dtype) == <<"str", dtype>>

\* json.loads(json.dumps(...)) of one statistics record and of features_stats
JsonRecord(r) == [k \in DOMAIN r |-> IF k = "dtype" THEN SerializeDtype(r[k]) ELSE r[k]]
JsonStats(stats) ==
    [g \in 1..Len(stats) |->
        << stats[g][1],
           [f \in 1..Len(stats[g][2]) |-> << stats[g][2][f][1], JsonRecord(stats[g][2][f][2]) >>] >>]

\* stats_metadata of lines 1085-1111
StatsMetadata ==
    << <<"feature_statistics", JsonStats(features_stats)>>,
       <<"numeric_features", numeric_features>>,
       <<"categorical_features", categorical_features>>,
       <<"text_features", text_features>>,
       <<"date_features", date_features>>,
       <<"feature_crosses", feature_crosses>>,
       <<"output_mode", output_mode>> >>

\* one call of save_model or load_model: whether self.model was set, and the
\* exception the call raised
IOCall(call, built, exc) == [call |-> call, built |-> built, raised |-> exc]

\* save_model: self.model is set by build_preprocessor alone, and
\* self.signatures (line 1116) by nothing, the attribute the class sets is
\* self.signature: the arguments of self.model.save are never all evaluated
SaveModel ==
    /\ Callable
    /\ Len(io_calls) < MaxCalls
    /\ io_calls' =
          Append(io_calls,
                 IOCall("save_model", IsSome(model),
                        Some(Exc("AttributeError",
                                 IF IsNone(model) THEN <<"model">> ELSE <<"signatures">>,
                                 None, ""))))
    /\ UNCHANGED <<buildVars, layerVars, memoVars, predictVars, saved, loaded>>

\* model._metadata.get("feature_statistics", {})
LoadedStats(metadata) ==
    IF DictHas(metadata, "feature_statistics")
    THEN DictGet(metadata, "feature_statistics")
    ELSE EmptyDict

\* load_model: the model at model_path, with the statistics of its metadata
LoadModel ==
    /\ Callable
    /\ Len(io_calls) < MaxCalls
    /\ IF IsNone(saved)
       THEN /\ io_calls' = Append(io_calls,
                                  IOCall("load_model", IsSome(model),
                                         Some(Exc("OSError", <<"model_path">>, None, ""))))
            /\ UNCHANGED loaded
       ELSE /\ io_calls' = Append(io_calls, IOCall("load_model", IsSome(model), None))
            /\ loaded' = Some(<< TheVal(saved).graph, LoadedStats(TheVal(saved).metadata) >>)
    /\ UNCHANGED <<buildVars, layerVars, memoVars, predictVars, saved>>

(***************************************************************************)
(* SpecIO: an orchestrator with at most one feature, built or not, and     *)
(* calls of save_model and load_model; model_path may hold a saved model   *)
(* that was written there by other means.                                  *)
(***************************************************************************)
OldSavedModel ==
    [graph |-> OtherModel,
     metadata |-> << <<"feature_statistics", EmptyDict>>, <<"numeric_features", << >> >>,
                     <<"categorical_features", << >> >>, <<"text_features", << >> >>,
                     <<"date_features", << >> >>, <<"feature_crosses", << >> >>,
                     <<"output_mode", "concat">> >>]

InitIO ==
    /\ \E n \in 0..1 :
         Arguments([i \in 1..n |->
                      Profile(StrDecl(s_float_normalized), "numeric_stats", Some(NumericStats))],
                   DefaultConfig)
    /\ output_mode \in {"concat", "dict"}
    /\ saved \in {None, Some(OldSavedModel)}
    /\ date_in = << >>
    /\ Unbuilt

NextIO ==
    \/ Next
    \/ SaveModel
    \/ LoadModel

SpecIO == InitIO /\ [][NextIO]_vars

(***************************************************************************)
(* Properties of save_model and load_model.                                *)
(***************************************************************************)
\* save_model was called on a built model, then load_model
SavedThenLoaded ==
    /\ Len(io_calls) = 2
    /\ io_calls[1].call = "save_model"
    /\ io_calls[1].built
    /\ io_calls[2].call = "load_model"

\* C16: saving a built model and loading it again recovers verbatim the whole
\* metadata block that was saved with the graph: both calls return, and the
\* value load_model returns next to the model is the saved mapping with the
\* keys feature_statistics, numeric_features, categorical_features,
\* text_features, date_features, feature_crosses and output_mode.
C16_LoadRecoversSavedMetadata ==
    SavedThenLoaded =>
        /\ IsNone(io_calls[1].raised)
        /\ IsNone(io_calls[2].raised)
        /\ loaded = Some(<< TheVal(model), StatsMetadata >>)

\* a model was built, save_model raised AttributeError on self.signatures and
\* wrote nothing, so that load_model found no model at model_path
C16_SaveOfBuiltModelRaised ==
    /\ pc = "done"
    /\ saved = None
    /\ loaded = None
    /\ Len(io_calls) = 2
    /\ io_calls[1] = IOCall("save_model", TRUE,
                            Some(Exc("AttributeError", <<"signatures">>, None, "")))
    /\ io_calls[2] = IOCall("load_model", TRUE, Some(Exc("OSError", <<"model_path">>, None, "")))

(***************************************************************************)
(* Properties of what a build leaves of the descriptors, of the statistics *)
(* and of the memo.                                                        *)
(***************************************************************************)
\* C17: feature descriptors are immutable after normalization: once
\* build_preprocessor has been called, at every step of it and after it, the
\* descriptor of every declared feature (its type, its custom step list and
\* its kwargs mapping) is what the constructor made of the declaration.
C17_DescriptorsUnchangedByBuild ==
    BuildCalled => features_specs = ConvertFeaturesSpecs(specs_arg).features_space

\* a text feature declared by the string "text", with a vocabulary in the
\* statistics, was built: its kwargs mapping, empty after construction, now
\* holds output_sequence_length
C17_TextKwargsGainedSequenceLength ==
    /\ pc = "done"
    /\ specs_arg = << <<"age", StrDecl(s_text)>> >>
    /\ ConvertFeaturesSpecs(specs_arg).features_space[1][2].kwargs = EmptyKw
    /\ DictGet(features_specs, "age").kwargs
          = ("output_sequence_length" :> DefaultSequenceLength)

\* C18: statistics are read-only for the build: when statistics were supplied
\* and no overwrite is requested, features_stats is, at every step of
\* build_preprocessor and after it, whether it succeeds or fails, the mapping
\* that was supplied.
C18_SuppliedStatisticsUnchangedByBuild ==
    (BuildCalled /\ stats_arg # EmptyDict /\ ~overwrite_stats) => features_stats = stats_arg

\* a numeric feature with statistics and a text feature without were
\* declared: the build added the group "text" to the supplied statistics
C18_TextGroupAddedToSuppliedStatistics ==
    /\ pc = "failed"
    /\ ~overwrite_stats
    /\ stats_arg = << <<"numeric_stats", << <<"age", NumericStats>> >> >> >>
    /\ text_features = <<"city">>
    /\ features_stats = Append(stats_arg, <<"text", EmptyDict>>)

\* a feature has an output handle
IsBuilt(feature_name) ==
    DictHas(outputs, feature_name) \/ DictHas(outputs_categorical, feature_name)

\* C20: with caching enabled, a feature that is processed twice within one
\* build_preprocessor run has its pipeline constructed only once: when the
\* text loop comes to a feature that the worker pool has built already, the
\* second request reuses the handle that was stored, so that the placeholder
\* and the output handle of the feature stay what they were.
C20_SecondRequestReusesHandle ==
    [][(/\ use_caching
        /\ pc = "text_loop"
        /\ idx <= Len(text_features)
        /\ IsBuilt(text_features[idx]))
       => /\ inputs' = inputs
          /\ outputs' = outputs
          /\ outputs_categorical' = outputs_categorical]_vars

\* with caching enabled, the text feature that the pool built on its first
\* placeholder was built again by the text loop, on a second placeholder, and
\* the memo was never written
C20_TextFeatureBuiltTwice ==
    /\ use_caching
    /\ pc = "done"
    /\ text_features = <<"age">>
    /\ output_mode = "dict"
    /\ preprocessed_cache = Some(EmptyDict)
    /\ DictGet(inputs, "age").gen = 2
    /\ DictGet(outputs, "age").inputs[1].gen = 2

(***************************************************************************)
(* Properties of the default numeric pipeline.                             *)
(***************************************************************************)
\* a declared numeric feature without custom steps whose type is neither
\* rescaled nor discretized
NormalizedByDefault(feature_name) ==
    /\ DictHas(features_specs, feature_name)
    /\ DictGet(features_specs, feature_name).cls = "NumericalFeature"
    /\ DictGet(features_specs, feature_name).preprocessors = << >>
    /\ DictGet(features_specs, feature_name).feature_type
          \notin {"FLOAT_RESCALED", "FLOAT_DISCRETIZED"}

\* the statistics record of a numeric feature
NumericStatsOf(feature_name) == DictGet(DictGet(features_stats, "numeric_stats"), feature_name)

\* the steps of a pipeline without the feature name: layer class, name prefix, arguments
StepsOf(h) ==
    [i \in 1..Len(h.layers) |->
        <<h.layers[i].layer, h.layers[i].name[1], h.layers[i].args>>]

\* C19: for every numeric feature without custom steps, the default pipeline
\* built for the type FLOAT_NORMALIZED and the one built for a numeric type
\* that is neither rescaled nor discretized are identical step for step given
\* the same (mean, variance): each is the single Normalization step norm_<name>
\* with the mean and the variance of the feature's statistics, so that two
\* such features with the same mean and variance, whatever their types, have
\* the same steps.
C19_DefaultNumericPipelineIsNormalization ==
    /\ \A i \in 1..Len(outputs) :
         NormalizedByDefault(outputs[i][1]) =>
            outputs[i][2].layers =
               << Layer("Normalization", "norm", outputs[i][1],
                        [mean |-> NumericStatsOf(outputs[i][1]).mean,
                         variance |-> NumericStatsOf(outputs[i][1]).var]) >>
    /\ \A i, j \in 1..Len(outputs) :
         (/\ NormalizedByDefault(outputs[i][1])
          /\ NormalizedByDefault(outputs[j][1])
          /\ NumericStatsOf(outputs[i][1]).mean = NumericStatsOf(outputs[j][1]).mean
          /\ NumericStatsOf(outputs[i][1]).var = NumericStatsOf(outputs[j][1]).var)
         => StepsOf(outputs[i][2]) = StepsOf(outputs[j][2])

\* a FLOAT_NORMALIZED feature and a FLOAT feature with the same statistics
\* were both built
C19_NormalizedAndPlainFloatBuilt ==
    /\ pc = "done"
    /\ DictKeys(features_specs) = <<"age", "city">>
    /\ DictKeys(outputs) = <<"age", "city">>
    /\ DictGet(features_specs, "age").feature_type = "FLOAT_NORMALIZED"
    /\ DictGet(features_specs, "city").feature_type = "FLOAT"
    /\ DictGet(features_specs, "city").preprocessors = << >>
    /\ NumericStatsOf("age") = NumericStatsOf("city")

(***************************************************************************)
(* The season layer (PreprocessorLayerFactory.date_season_layer, line      *)
(* 770): a layer on parsed dates <<year, month, day, weekday>>.            *)
(***************************************************************************)
Seasons == <<"Winter", "Spring", "Summer", "Fall">>

\* 1 where the condition holds, else 0
Indicator(b) == IF b THEN 1 ELSE 0

\* a faulty variant of SeasonLayer: March is still counted as winter
SeasonLayerWinterThroughMarch(date) ==
    LET month == date[2] IN
    date \o << Indicator(month <= 3 \/ month = 12),
               Indicator(month > 3 /\ month <= 5),
               Indicator(month > 5 /\ month <= 8),
               Indicator(month > 8 /\ month <= 11) >>

\* the layer: the month is split off the input, the four indicators are
\* computed from it and concatenated after the input
SeasonLayer(date) ==
    LET month == date[2] IN
    date \o << Indicator(month <= 2 \/ month = 12),
               Indicator(month > 2 /\ month <= 5),
               Indicator(month > 5 /\ month <= 8),
               Indicator(month > 8 /\ month <= 11) >>

\* the parsed dates a call is made with: two years, every month, the first
\* and the last days of a month, the first and the last weekday
Years == {2023, 2024}
Months == 1..12
Days == {1, 15, 28, 31}
Weekdays == {0, 6}
ParsedDates ==
    { <<y, m, d, w>> : y \in Years, m \in Months, d \in Days, w \in Weekdays }

\* layer(dates)
SeasonLayerCall ==
    /\ date_in # << >>
    /\ date_out = None
    /\ date_out' = Some(SeasonLayer(date_in))
    /\ UNCHANGED <<buildVars, predictVars, ioVars, memoVars, date_in>>

\* SpecSeason: one call of the layer on a parsed date
InitSeason ==
    /\ Arguments(<< >>, DefaultConfig)
    /\ output_mode = "concat"
    /\ saved = None
    /\ date_in \in ParsedDates
    /\ Unbuilt

NextSeason == SeasonLayerCall

SpecSeason == InitSeason /\ [][NextSeason]_vars

\* the season of a month, as a table
SeasonOfMonth(month) ==
    CASE month \in {12, 1, 2} -> "Winter"
      [] month \in {3, 4, 5} -> "Spring"
      [] month \in {6, 7, 8} -> "Summer"
      [] month \in {9, 10, 11} -> "Fall"

\* the one-hot vector of a season: 1 at its position in Seasons
OneHot(season) == [i \in 1..Len(Seasons) |-> Indicator(Seasons[i] = season)]

\* C21: a call of the season layer on a parsed date returns the four input
\* components unchanged, followed by the one-hot indicator of the season of
\* the month alone (Winter for 12, 1, 2; Spring for 3-5; Summer for 6-8;
\* Fall for 9-11), whatever the year, the day and the weekday.
C21_SeasonIsOneHotOfMonthAppended ==
    IsSome(date_out) =>
        /\ Len(TheVal(date_out)) = Len(date_in) + Len(Seasons)
        /\ SubSeq(TheVal(date_out), 1, Len(date_in)) = date_in
        /\ SubSeq(TheVal(date_out), Len(date_in) + 1, Len(date_in) + Len(Seasons))
             = OneHot(SeasonOfMonth(date_in[2]))

\* the layer was called on a date of December of the second year, its last
\* day, and returned the winter indicator
C21_DecemberIsWinter ==
    /\ date_in = <<2024, 12, 31, 6>>
    /\ date_out = Some(<<2024, 12, 31, 6, 1, 0, 0, 0>>)

(***************************************************************************)
(* SpecOrder: builds of four features (a numeric one, a categorical or     *)
(* text one with statistics, a text one and a date one), with and without  *)
(* a cross of the first two.                                               *)
(***************************************************************************)
OrderFeatureLists ==
    { << Profile(StrDecl(s_float_normalized), "numeric_stats", Some(numeric)),
         second,
         Profile(StrDecl(s_text), third.group, third.stats),
         Profile(StrDecl(s_date), "", None) >> :
        numeric \in {NumericStats, NumericStatsNoVar},
        second \in { Profile(OneHotCategorical, "categorical_stats", Some(VocabStats(1))),
                     Profile(StrDecl(s_text), "text", Some(VocabStats(1))) },
        third \in { [group |-> "text", stats |-> Some(VocabStats(1))],
                    [group |-> "", stats |-> None] } }

OrderCrosses == { << >>, << <<"age", "city", 10>> >> }

InitOrder ==
    /\ \E ps \in OrderFeatureLists :
          /\ specs_arg = SpecsOf(ps)
          /\ computed_stats = AssembleStats(ps, 1)
          /\ stats_arg = AssembleStats(ps, 1)
    /\ feature_crosses \in OrderCrosses
    /\ overwrite_stats = FALSE
    /\ use_caching = TRUE
    /\ transfo_nr_blocks = 0
    /\ transfo_placement = "categorical"
    /\ output_mode \in {"concat", "dict"}
    /\ saved = None
    /\ date_in = << >>
    /\ Unbuilt

SpecOrder == InitOrder /\ [][Next]_vars

\* the declared cross i has its output
CrossBuilt(i) ==
    DictHas(outputs, CrossKey(feature_crosses[i][1], feature_crosses[i][2]))

AnyCrossBuilt == \E i \in 1..Len(feature_crosses) : CrossBuilt(i)
AllCrossesBuilt == \A i \in 1..Len(feature_crosses) : CrossBuilt(i)

\* every statistics entry that the grouping hands to a kind batch has its output
StatsEntriesBuilt ==
    \A g \in 1..Len(features_stats) :
        \A i \in 1..Len(features_stats[g][2]) :
            LET entry == features_stats[g][2][i] IN
            KindOfEntry(entry[1], entry[2], text_features, date_features) # ""
                => IsBuilt(entry[1])

\* a feature has an entry in some statistics group
HasStatsEntry(feature_name) ==
    \E g \in 1..Len(features_stats) : DictHas(features_stats[g][2], feature_name)

\* the text loop has made its pass for a feature: the placeholder of the
\* feature is the one of line 921, the second one when the feature has a
\* statistics entry
ThroughTextLoop(feature_name) ==
    /\ DictHas(inputs, feature_name)
    /\ DictGet(inputs, feature_name).gen = IF HasStatsEntry(feature_name) THEN 2 ELSE 1

\* the text loop, the date loop of the build still has a pass to make
TextLoopPending ==
    /\ text_features # << >>
    /\ \/ pc = "cross"
       \/ pc = "text_loop" /\ idx <= Len(text_features)
DateLoopPending ==
    /\ date_features # << >>
    /\ \/ pc \in {"cross", "text_loop"}
       \/ pc = "date_loop" /\ idx <= Len(date_features)

\* _prepare_outputs has been reached
FusionStarted == pc \in {"prepare", "model", "done"}

\* C22 as claimed: no cross pipeline is built until every numeric,
\* categorical, text and date pipeline of the build has completed, and
\* fusion starts only after the crosses.
C22_CrossesAfterEveryOtherKind ==
    /\ AnyCrossBuilt => (StatsEntriesBuilt /\ ~TextLoopPending /\ ~DateLoopPending)
    /\ FusionStarted => AllCrossesBuilt

\* C22: the crosses are built after every kind batch of every statistics
\* group has completed and before the text loop and the date loop of
\* build_preprocessor; the date loop runs after the text loop; fusion starts
\* only after the kind batches, the crosses, the text loop and the date loop.
C22_CrossesAfterBatchesBeforeLoops ==
    /\ AnyCrossBuilt => StatsEntriesBuilt
    /\ \A i \in 1..Len(text_features) :
          ThroughTextLoop(text_features[i]) => AllCrossesBuilt
    /\ \A i \in 1..Len(date_features) :
          (DictHas(inputs, date_features[i]) /\ ~HasStatsEntry(date_features[i]))
              => /\ AllCrossesBuilt
                 /\ \A j \in 1..Len(text_features) :
                       ThroughTextLoop(text_features[j]) /\ IsBuilt(text_features[j])
    /\ FusionStarted
          => /\ StatsEntriesBuilt
             /\ AllCrossesBuilt
             /\ \A j \in 1..Len(text_features) : IsBuilt(text_features[j])
             /\ \A j \in 1..Len(date_features) : IsBuilt(date_features[j])

\* a build of a numeric, a categorical, a text and a date feature with a
\* cross has ended: the cross was built when the text feature had only its
\* first placeholder and the date feature none, the text loop then made
\* the second placeholder of the text feature
C22_CrossBuiltBeforeTextAndDate ==
    /\ pc = "done"
    /\ output_mode = "dict"
    /\ DictKeys(inputs) = <<"age", "city", "note", "day">>
    /\ DictGet(inputs, "note").gen = 2
    /\ DictKeys(outputs) = <<"age", "note", "day", "age_x_city">>
    /\ DictGet(outputs, "age_x_city").inputs
         = <<DictGet(inputs, "age"), DictGet(inputs, "city")>>

(***************************************************************************)
(* The stages of a build.                                                  *)
(***************************************************************************)
Stages == <<"INPUTS_BUILT", "FEATURES_BUILT", "CROSSES_BUILT", "TEXT/DATE_BUILT",
            "OUTPUTS_FUSED", "GRAPH_BUILT">>

\* the stage the call is working on, as a position in Stages: 0 before the
\* first, Len(Stages) + 1 once the call has returned.  The head of the loop
\* over the statistics groups belongs to the group that has just been done
StageIndex ==
    CASE pc \in {"constructed", "init_failed", "idle"} -> 0
      [] pc = "stats_loop" -> IF gi = 1 THEN 0 ELSE 2
      [] pc = "inputs_wait" -> 1
      [] pc \in {"kind_loop", "batch_wait"} -> 2
      [] pc = "cross" -> 3
      [] pc \in {"text_loop", "date_loop"} -> 4
      [] pc = "prepare" -> 5
      [] pc = "model" -> 6
      [] pc = "done" -> Len(Stages) + 1
      [] pc \in {"except", "failed"} -> 0

Failing == pc \in {"except", "failed"}

\* FAILED is terminal for the call: from the raise on, the only step is the
\* except clause, which builds nothing, and there is neither a graph nor a
\* returned value
FailedIsTerminal ==
    /\ [](Failing => (model = None /\ result = None))
    /\ [][pc = "except" =>
            /\ pc' = "failed"
            /\ UNCHANGED <<graphVars, concat_all, model, result, features_specs,
                           features_stats>>]_vars
    /\ [][pc # "failed"]_vars

\* C23 as claimed: a build passes through its stages in the order inputs
\* built, feature pipelines built, crosses built, text/date built, outputs
\* fused, graph built, and never goes back to an earlier stage; FAILED is
\* terminal for the call.
C23_StagesInClaimedOrder ==
    /\ [][Failing' \/ StageIndex' >= StageIndex]_vars
    /\ [][(inputs' # inputs /\ ~Failing') => StageIndex' <= 1]_vars
    /\ FailedIsTerminal

\* C23: for each statistics group in turn the placeholders are built and
\* then the feature pipelines of the group; after the last group the stages
\* follow in the order crosses built, text/date built, outputs fused, graph
\* built; placeholders are created only in the placeholder stage of a group
\* and in the text/date stage; FAILED is terminal for the call.
C23_StagesPerGroupThenInOrder ==
    /\ [][\/ Failing'
          \/ StageIndex' >= StageIndex
          \/ /\ pc = "stats_loop"
             /\ gi <= Len(features_stats)
             /\ pc' = "inputs_wait"]_vars
    /\ [][(inputs' # inputs /\ ~Failing') => (pc = "inputs_wait" \/ StageIndex = 4)]_vars
    /\ FailedIsTerminal

\* the numeric batch, the categorical batch of the second statistics group
\* and the cross were built, then the text loop raised for a text feature
\* without statistics: the call has failed, nothing was fused and there is
\* no graph
C23_FailedInTextStageNothingFused ==
    /\ pc = "failed"
    /\ feature_crosses # << >>
    /\ DictKeys(outputs) = <<"age", "age_x_city">>
    /\ DictKeys(outputs_categorical) = <<"city">>
    /\ raised = Some(Exc("KeyError", <<"vocab">>, None, "note"))
    /\ concat_all = None
    /\ model = None
    /\ result = None

(***************************************************************************)
(* Several failures in one batch.                                          *)
(***************************************************************************)
\* the future of the current pool that built a feature
TaskOf(feature_name) == CHOOSE i \in 1..Len(tasks) : tasks[i].feature = feature_name

\* of the futures that raised, the one that finished first, the one that
\* was submitted first
FirstRaisedInTime ==
    TaskOf(done_order[CHOOSE k \in 1..Len(done_order) :
                         /\ TaskOf(done_order[k]) \in RaisedTasks
                         /\ \A j \in 1..(k - 1) : TaskOf(done_order[j]) \notin RaisedTasks])
FirstRaisedSubmitted == CHOOSE i \in RaisedTasks : \A j \in RaisedTasks : i <= j

SeveralFailed == pc = "failed" /\ Cardinality(RaisedTasks) >= 2

\* C24 as claimed: when more than one per-feature build of a batch raised,
\* the exception the caller gets is the one of the build that failed first
\* in time.
C24_FirstFailureInTimeIsReraised ==
    SeveralFailed => raised = tasks[FirstRaisedInTime].exc

\* C24: when more than one per-feature build of a batch raised, the
\* exception the caller gets is the one of the failed build that was
\* submitted first, whatever the order in which the builds failed.
C24_FirstSubmittedFailureIsReraised ==
    SeveralFailed => raised = tasks[FirstRaisedSubmitted].exc

\* both builds of a batch raised, the second submitted one first in time,
\* and the caller got the exception of the first submitted one
C24_LaterFailureOfFirstSubmittedReraised ==
    /\ pc = "failed"
    /\ Len(tasks) = 2
    /\ RaisedTasks = {1, 2}
    /\ done_order = <<tasks[2].feature, tasks[1].feature>>
    /\ raised = tasks[1].exc
    /\ raised # tasks[2].exc

\* the exception of a failed batch has left _process_feature_batch
BatchErrorDelivered == pc \in {"except", "failed"} /\ RaisedTasks # {}

\* C25: when a batch fails, the exception reaches the caller of the
\* scheduler only after every task dispatched in that batch has run to
\* completion or raised: when the error is delivered no dispatched task is
\* cancelled or still running, every one of them has finished, and the
\* worker pool of the batch has no work left.
C25_ErrorDeliveredAfterEveryTaskEnded ==
    BatchErrorDelivered
        => /\ \A i \in 1..Len(tasks) : tasks[i].status \in {"done", "raised"}
           /\ Len(done_order) = Len(tasks)
           /\ \A i \in 1..Len(tasks) : InSeq(tasks[i].feature, done_order)
           /\ \A i \in 1..Len(tasks) : tasks[i].status = "done" => IsBuilt(tasks[i].feature)

\* the first build of a batch raised, the second one ended after it and
\* stored its output, and then the caller got the first one's exception
C25_SecondBuildEndedAfterFirstRaised ==
    /\ pc = "failed"
    /\ Len(tasks) = 2
    /\ tasks[1].status = "raised"
    /\ tasks[2].status = "done"
    /\ done_order = <<tasks[1].feature, tasks[2].feature>>
    /\ IsBuilt(tasks[2].feature)
    /\ raised = tasks[1].exc

(***************************************************************************)
(* SpecBatches: the scheduler on one statistics group that holds a record  *)
(* of each kind: a numeric, a categorical, a text and a date feature,      *)
(* declared in this order or in the reverse one, or the three of them      *)
(* without the text feature.                                               *)
(***************************************************************************)
\* the features as <<name, declaration, statistics record>>
MixedFeatures(numeric, text) ==
    << <<"age", StrDecl(s_float_normalized), numeric>>,
       <<"city", OneHotCategorical, VocabStats(1)>>,
       <<"note", StrDecl(s_text), text>>,
       <<"day", StrDecl(s_date), DtypeOnlyStats>> >>

Reversed(s) == [i \in 1..Len(s) |-> s[Len(s) + 1 - i]]

\* a list without its text feature
WithoutText(fs) == SelectSeq(fs, LAMBDA f : f[1] # "note")

MixedFeatureLists ==
    { MixedFeatures(numeric, text) :
        numeric \in {NumericStats, NumericStatsNoVar},
        text \in {VocabStats(1), DtypeOnlyStats} }
    \cup { Reversed(MixedFeatures(numeric, text)) :
             numeric \in {NumericStats, NumericStatsNoVar},
             text \in {VocabStats(1), DtypeOnlyStats} }
    \cup { WithoutText(MixedFeatures(numeric, DtypeOnlyStats)) :
             numeric \in {NumericStats, NumericStatsNoVar} }

\* one statistics group with the record of every feature
OneGroup(fs) == << <<"feature_stats", [i \in 1..Len(fs) |-> <<fs[i][1], fs[i][3]>>]>> >>

InitBatches ==
    /\ \E fs \in MixedFeatureLists :
          /\ specs_arg = [i \in 1..Len(fs) |-> <<fs[i][1], fs[i][2]>>]
          /\ computed_stats = OneGroup(fs)
          /\ stats_arg = OneGroup(fs)
    /\ feature_crosses = << >>
    /\ overwrite_stats = FALSE
    /\ use_caching = TRUE
    /\ transfo_nr_blocks = 0
    /\ transfo_placement = "categorical"
    /\ output_mode \in {"concat", "dict"}
    /\ saved = None
    /\ date_in = << >>
    /\ Unbuilt

SpecBatches == InitBatches /\ [][Next]_vars

\* the statistics group the scheduler was called with
FeaturesDict == features_stats[gi][2]

\* the placeholder and the signature entry of every feature of the group
\* exist, with the dtype of the feature's record
GroupInputsExist ==
    \A i \in 1..Len(FeaturesDict) :
        LET feature_name == FeaturesDict[i][1]
            dtype == KwGet(FeaturesDict[i][2], "dtype", "string")
        IN /\ DictHas(inputs, feature_name)
           /\ DictGet(inputs, feature_name).dtype = dtype
           /\ DictHas(signature, feature_name)
           /\ DictGet(signature, feature_name) = dtype

\* every feature of the kind batch k has its output, none has
BatchCompleted(k) == \A i \in 1..Len(groups[k]) : IsBuilt(groups[k][i][1])
BatchNotStarted(k) == \A i \in 1..Len(groups[k]) : ~IsBuilt(groups[k][i][1])

\* C26: within one scheduler invocation, no per-feature build of the group
\* is dispatched while the placeholders are being set up; once the first
\* kind batch can be dispatched, the placeholder and the signature entry of
\* every feature of the group exist; and while the batch of a kind is
\* dispatched, its futures are of that kind alone and hold the placeholders
\* of their features, every batch of an earlier kind has completed and no
\* batch of a later kind has started.
C26_InputsThenKindBatchesInOrder ==
    /\ pc = "inputs_wait" => \A k \in 1..Len(groups) : BatchNotStarted(k)
    /\ pc \in {"kind_loop", "batch_wait"} => GroupInputsExist
    /\ pc = "kind_loop"
          => /\ \A k \in 1..Len(groups) : k < ki => BatchCompleted(k)
             /\ \A k \in 1..Len(groups) : k >= ki => BatchNotStarted(k)
    /\ pc = "batch_wait"
          => /\ \A i \in 1..Len(tasks) :
                   /\ tasks[i].kind = KindNames[ki]
                   /\ tasks[i].input_layer = DictGet(inputs, tasks[i].feature)
             /\ \A k \in 1..Len(groups) : k < ki => BatchCompleted(k)
             /\ \A k \in 1..Len(groups) : k > ki => BatchNotStarted(k)

\* the features were declared date, text, categorical, numeric; the text
\* batch is dispatched and has not ended: the four placeholders exist, the
\* numeric and the categorical feature are built, the date feature is not
C26_TextBatchDispatchedAfterCategorical ==
    /\ pc = "batch_wait"
    /\ KindNames[ki] = "text"
    /\ ~AllComplete(tasks)
    /\ DictKeys(FeaturesDict) = <<"day", "note", "city", "age">>
    /\ DictKeySet(inputs) = {"age", "city", "note", "day"}
    /\ IsBuilt("age")
    /\ IsBuilt("city")
    /\ ~IsBuilt("note")
    /\ ~IsBuilt("day")

(***************************************************************************)
(* SpecFuse: builds of up to MaxFused features with and without an output  *)
(* in each of the two output maps, with every transformer-block count up   *)
(* to MaxBlocks and both placements.                                       *)
(***************************************************************************)
MaxFused == 2
MaxBlocks == 2

\* a numeric feature (its output in outputs), a one-hot feature (its output
\* in outputs_categorical), a numeric feature whose record has no mean (a
\* placeholder and no output) and a date feature (its output in outputs)
FuseProfiles ==
    { Profile(StrDecl(s_float_normalized), "numeric_stats", Some(NumericStats)),
      Profile(OneHotCategorical, "categorical_stats", Some(VocabStats(MaxVocab))),
      Profile(StrDecl(s_float_normalized), "numeric_stats", Some(NumericStatsNoMean)),
      Profile(StrDecl(s_date), "", None) }

Placements == {"categorical", "all_features"}

InitFuse ==
    /\ \E n \in 0..MaxFused :
         \E ps \in [1..n -> FuseProfiles] :
            \E blocks \in 0..MaxBlocks :
               \E placement \in Placements :
                  Arguments(ps, [DefaultConfig EXCEPT !.blocks = blocks,
                                                      !.placement = placement])
    /\ output_mode \in {"concat", "dict"}
    /\ saved = None
    /\ date_in = << >>
    /\ Unbuilt

SpecFuse == InitFuse /\ [][Next]_vars

(***************************************************************************)
(* Properties of the fusion (_prepare_outputs).                            *)
(***************************************************************************)
\* the CONCAT branch has run and did not raise
Fused == pc = "model" /\ output_mode = "concat"

\* the tensors that were passed to ConcatenateNumeric
PlainParts ==
    IF outputs_categorical # EmptyDict
    THEN TheVal(concat_all).parts[1].parts
    ELSE TheVal(concat_all).parts

\* the ranks the claim names
ReshapedRanks == {2, 4}

\* a tensor after Reshape((-1,)): flat per sample
Flat(h) ==
    [h EXCEPT !.layers = Append(@, Layer("Reshape", "reshape", "", EmptyKw)),
              !.shape = << Product(h.shape) >>]

\* C27 as claimed: in CONCAT fusion every plain output of rank 2 or of rank
\* 4 is reshaped to a flat per-sample 2-D shape before the concatenation,
\* and a plain output of any other rank is passed through unchanged.
C27_RankTwoOrFourReshapedBeforeConcat ==
    (Fused /\ outputs # EmptyDict)
        => /\ Len(PlainParts) = Len(outputs)
           /\ \A i \in 1..Len(outputs) :
                 PlainParts[i] = IF Rank(outputs[i][2]) \in ReshapedRanks
                                 THEN Flat(outputs[i][2])
                                 ELSE outputs[i][2]

\* the output of the only feature, of rank 2, went into the concatenation
\* as it was: no Reshape layer was applied to it
C27_RankTwoOutputNotReshaped ==
    /\ Fused
    /\ DictKeys(outputs) = <<"age">>
    /\ outputs_categorical = EmptyDict
    /\ Rank(DictGet(outputs, "age")) = 2
    /\ PlainParts = << DictGet(outputs, "age") >>
    /\ \A i \in 1..Len(PlainParts[1].layers) : PlainParts[1].layers[i].layer # "Reshape"

\* the two groups of the fusion: the plain outputs as they go into
\* ConcatenateNumeric, the categorical-joinable outputs
PlainGroup == [i \in 1..Len(outputs) |-> Reshaped(outputs[i][2])]
CategoricalGroup == DictValues(outputs_categorical)

\* the fused tensor without the transformer blocks chained after it
BeforeBlocks(h) ==
    [h EXCEPT !.layers = SelectSeq(@, LAMBDA l : l.layer # "transformer_block")]

\* the name of the Concatenate layer that made a tensor
ConcatName(h) == h.layers[1].name[1]

\* every concatenation in a tensor was given at least one tensor
RECURSIVE NoEmptyConcat(_)
NoEmptyConcat(h) ==
    \A i \in 1..Len(h.layers) :
        h.layers[i].layer = "Concatenate"
            => /\ h.parts # << >>
               /\ \A j \in 1..Len(h.parts) : NoEmptyConcat(h.parts[j])

\* C28: after CONCAT fusion the fused tensor is, when both groups are
\* non-empty, the concatenation of the concatenated plain group followed by
\* the concatenated categorical-joinable group; the concatenated plain
\* group alone when only it is non-empty; the concatenated
\* categorical-joinable group alone when only it is non-empty; and None
\* when both are empty; no concatenation in it was given an empty group.
C28_FusedIsPlainThenCategorical ==
    Fused =>
        LET fused == BeforeBlocks(TheVal(concat_all)) IN
        /\ (PlainGroup # << >> /\ CategoricalGroup # << >>)
              => /\ IsSome(concat_all)
                 /\ ConcatName(fused) = "ConcatenateAll"
                 /\ Len(fused.parts) = 2
                 /\ ConcatName(fused.parts[1]) = "ConcatenateNumeric"
                 /\ fused.parts[1].parts = PlainGroup
                 /\ ConcatName(fused.parts[2]) = "ConcatenateCategorical"
                 /\ fused.parts[2].parts = CategoricalGroup
                 /\ fused.shape = << SumLast(PlainGroup) + SumLast(CategoricalGroup) >>
        /\ (PlainGroup # << >> /\ CategoricalGroup = << >>)
              => /\ IsSome(concat_all)
                 /\ ConcatName(fused) = "ConcatenateNumeric"
                 /\ fused.parts = PlainGroup
        /\ (PlainGroup = << >> /\ CategoricalGroup # << >>)
              => /\ IsSome(concat_all)
                 /\ ConcatName(fused) = "ConcatenateCategorical"
                 /\ fused.parts = CategoricalGroup
        /\ (PlainGroup = << >> /\ CategoricalGroup = << >>) => concat_all = None
        /\ IsSome(concat_all) => NoEmptyConcat(fused)

\* a one-hot feature and, declared after it, a numeric feature were fused:
\* the numeric output comes first in the fused tensor
C28_NumericThenOneHotFused ==
    /\ Fused
    /\ DictKeys(outputs) = <<"city">>
    /\ DictKeys(outputs_categorical) = <<"age">>
    /\ IsSome(concat_all)
    /\ TheVal(concat_all).parts[1].parts = << DictGet(outputs, "city") >>
    /\ TheVal(concat_all).parts[2].parts = << DictGet(outputs_categorical, "age") >>
    /\ TheVal(concat_all).shape = << 1 + MaxVocab + 1 >>

\* the DICT branch has run
DictFused == output_mode = "dict" /\ pc \in {"model", "done"}

\* a value of the output mapping is unset (None), not a tensor
Unset(v) == DOMAIN v = {}

\* C29: after fusion in DICT mode no key of the output mapping is mapped to
\* an unset value; the fusion emits the keys that had a computed output
\* before it, each with that output, and no other key, whichever inputs
\* have an output.
C29_DictOutputHasNoUnsetValue ==
    /\ [](DictFused => \A i \in 1..Len(outputs) : ~Unset(outputs[i][2]))
    /\ [][(pc = "prepare" /\ output_mode = "dict")
            => /\ DictKeySet(outputs') = DictKeySet(outputs)
               /\ \A k \in DictKeySet(outputs) : DictGet(outputs', k) = DictGet(outputs, k)]_vars

\* two features have a placeholder, one of them has no output (its record
\* has no mean, or it is a one-hot feature): the mapping returned in DICT
\* mode has the key of the other one alone
C29_InputWithoutOutputNotEmitted ==
    /\ pc = "done"
    /\ output_mode = "dict"
    /\ DictKeys(inputs) = <<"age", "city">>
    /\ DictKeys(outputs) = <<"city">>
    /\ ~Unset(DictGet(outputs, "city"))
    /\ TheVal(model).outputs = outputs

\* the transformer layers of a tensor, in the order they were chained
TransformerLayers(h) == SelectSeq(h.layers, LAMBDA l : l.layer = "transformer_block")

\* C30: in CONCAT mode with a configured transformer-block count n >= 1
\* and placement ALL_FEATURES or CATEGORICAL, the fused tensor is followed
\* by exactly n transformer layers, chained in the order of their block
\* index, each with the width of the fused tensor as its model dimension;
\* with no count configured no transformer layer is inserted; in DICT mode
\* there is no fused tensor and no output has a transformer layer.
C30_ExactlyNTransformerLayersAfterFusion ==
    /\ (Fused /\ IsSome(concat_all))
          => LET h == TheVal(concat_all) IN
             /\ Len(TransformerLayers(h)) = transfo_nr_blocks
             /\ h.layers[1].layer = "Concatenate"
             /\ SubSeq(h.layers, 2, Len(h.layers)) = TransformerLayers(h)
             /\ \A i \in 1..Len(TransformerLayers(h)) :
                   /\ TransformerLayers(h)[i].args.block_idx = i - 1
                   /\ TransformerLayers(h)[i].args.dim_model = h.shape[1]
    /\ DictFused
          => /\ concat_all = None
             /\ \A i \in 1..Len(outputs) : TransformerLayers(outputs[i][2]) = << >>

\* MaxBlocks blocks were configured with placement CATEGORICAL: the fused
\* tensor of a numeric and a one-hot feature is followed by as many layers
C30_TwoBlocksChainedCategorical ==
    /\ Fused
    /\ transfo_placement = "categorical"
    /\ transfo_nr_blocks = MaxBlocks
    /\ outputs # EmptyDict
    /\ outputs_categorical # EmptyDict
    /\ Len(TheVal(concat_all).layers) = 1 + MaxBlocks
    /\ TheVal(concat_all).layers[1 + MaxBlocks].args.block_idx = MaxBlocks - 1

(***************************************************************************)
(* Properties of the cross builder.                                        *)
(***************************************************************************)
\* the composite key of the declared cross i
KeyOfCross(i) == CrossKey(feature_crosses[i][1], feature_crosses[i][2])

\* the declared cross i is over declared features
OverDeclared(i) ==
    /\ DictHas(features_specs, feature_crosses[i][1])
    /\ DictHas(features_specs, feature_crosses[i][2])

\* the cross builder raised in its pass for the declared cross i
CrossPassRaised(i) ==
    /\ pc \in {"except", "failed"}
    /\ idx = i
    /\ IsSome(CurrentExc)
    /\ TheVal(CurrentExc).origin = KeyOfCross(i)
    /\ TheVal(CurrentExc).feature = None

\* the cross builder has made its pass for the declared cross i, and no
\* later stage has run
CrossPassEnded(i) ==
    \/ pc = "cross" /\ idx > i
    \/ CrossPassRaised(i)

\* the placeholder a feature gets under its own name, with its declared dtype
HasOwnPlaceholder(feature_name) ==
    /\ DictHas(inputs, feature_name)
    /\ DictGet(inputs, feature_name).name = feature_name
    /\ (~HasStatsEntry(feature_name)
           => DictGet(inputs, feature_name).dtype
                  = FeatureDtype(DictGet(features_specs, feature_name)))

\* C31 as claimed: for every declared cross (a, b, n) over declared features,
\* after the pass of the cross builder both a and b have an input placeholder
\* in inputs under their own name (one without a placeholder got one with its
\* declared dtype), and the cross pipeline, built from these two
\* placeholders, is in outputs under a_x_b.
C31_CrossMaterializesMissingPlaceholders ==
    \A i \in 1..Len(feature_crosses) :
        (OverDeclared(i) /\ CrossPassEnded(i))
            => /\ HasOwnPlaceholder(feature_crosses[i][1])
               /\ HasOwnPlaceholder(feature_crosses[i][2])
               /\ DictHas(outputs, KeyOfCross(i))
               /\ DictGet(outputs, KeyOfCross(i)).inputs
                    = << DictGet(inputs, feature_crosses[i][1]),
                         DictGet(inputs, feature_crosses[i][2]) >>

\* a cross of a numeric feature with a declared date feature, which has no
\* placeholder when the cross builder runs: the placeholder was stored under
\* the Feature object, none under the feature's name, the builder raised
\* KeyError at line 724 and the build failed without the cross
C31_CrossOverFeatureWithoutPlaceholderFailed ==
    /\ pc = "failed"
    /\ Len(feature_crosses) = 1
    /\ OverDeclared(1)
    /\ CrossPassRaised(1)
    /\ TheVal(raised).type = "KeyError"
    /\ TheVal(raised).key = << feature_crosses[1][2] >>
    /\ InSeq(feature_crosses[1][2], date_features)
    /\ DictHas(inputs, feature_crosses[1][1])
    /\ ~DictHas(inputs, feature_crosses[1][2])
    /\ DictHas(inputs, FeatureObjectKey(feature_crosses[1][2]))
    /\ ~DictHas(outputs, KeyOfCross(1))

(***************************************************************************)
(* SpecCross: builds with several declared crosses: none, one, a pair      *)
(* declared twice with two bucket counts, two pairs, a cross over a        *)
(* feature that has no placeholder when the cross builder runs, a cross    *)
(* over a text feature; and a build of two numeric features named a and    *)
(* a_x_a with the crosses (a, a_x_a) and (a_x_a, a).  A statistics entry   *)
(* may hold a dtype only.                                                  *)
(***************************************************************************)
CrossFeatureLists ==
    { << Profile(StrDecl(s_float_normalized), "numeric_stats", Some(NumericStats)),
         Profile(OneHotCategorical, "categorical_stats", Some(second)),
         Profile(StrDecl(s_text), third.group, third.stats),
         Profile(StrDecl(s_date), "", None) >> :
        second \in {VocabStats(1), DtypeOnlyStats},
        third \in { [group |-> "text", stats |-> Some(VocabStats(1))],
                    [group |-> "", stats |-> None] } }

CrossLists ==
    { << >>,
      << <<"age", "city", 10>> >>,
      << <<"age", "city", 10>>, <<"age", "city", 20>> >>,
      << <<"age", "city", 10>>, <<"city", "age", 5>>, <<"age", "city", 20>> >>,
      << <<"age", "city", 10>>, <<"age", "day", 10>> >>,
      << <<"age", "note", 10>> >> }

\* two numeric features whose names make the keys of two pairs coincide,
\* their statistics and their crosses
CollidingBuild ==
    [specs |-> << <<"a", StrDecl(s_float_normalized)>>,
                  <<"a_x_a", StrDecl(s_float_normalized)>> >>,
     stats |-> << <<"numeric_stats", << <<"a", NumericStats>>, <<"a_x_a", NumericStats>> >> >> >>,
     crosses |-> << <<"a", "a_x_a", 10>>, <<"a_x_a", "a", 20>> >>]

InitCross ==
    /\ \/ /\ \E ps \in CrossFeatureLists :
                /\ specs_arg = SpecsOf(ps)
                /\ computed_stats = AssembleStats(ps, 1)
                /\ stats_arg = AssembleStats(ps, 1)
          /\ feature_crosses \in CrossLists
       \/ /\ specs_arg = CollidingBuild.specs
          /\ computed_stats = CollidingBuild.stats
          /\ stats_arg = CollidingBuild.stats
          /\ feature_crosses = CollidingBuild.crosses
    /\ overwrite_stats = FALSE
    /\ use_caching = TRUE
    /\ transfo_nr_blocks = 0
    /\ transfo_placement = "categorical"
    /\ output_mode \in {"concat", "dict"}
    /\ saved = None
    /\ date_in = << >>
    /\ Unbuilt

SpecCross == InitCross /\ [][Next]_vars

\* the stages of a build in which the number of passes the cross builder
\* has made is known from pc and idx
CrossStages == {"constructed", "idle", "stats_loop", "inputs_wait", "kind_loop",
                "batch_wait", "cross", "text_loop", "date_loop", "prepare", "model", "done"}

CrossPassesMade ==
    IF pc = "cross" THEN idx - 1
    ELSE IF pc \in {"text_loop", "date_loop", "prepare", "model", "done"}
    THEN Len(feature_crosses)
    ELSE 0

\* the declared pairs, the composite keys of the first n declared crosses
PairsUpTo(n) == { <<feature_crosses[i][1], feature_crosses[i][2]>> : i \in 1..n }
KeysUpTo(n) == { KeyOfCross(i) : i \in 1..n }

\* the keys of the first n declared crosses, each at its first declaration
FirstDeclarations(n) ==
    SelectSeq([i \in 1..n |-> i], LAMBDA i : \A j \in 1..(i - 1) : KeyOfCross(j) # KeyOfCross(i))
KeysInDeclarationOrder(n) ==
    [k \in 1..Len(FirstDeclarations(n)) |-> KeyOfCross(FirstDeclarations(n)[k])]

\* the last of the first n declared crosses with the key of cross i; with
\* the pair of cross i
LastWithKey(i, n) ==
    CHOOSE j \in 1..n :
        /\ KeyOfCross(j) = KeyOfCross(i)
        /\ \A k \in 1..n : KeyOfCross(k) = KeyOfCross(i) => k <= j
LastWithPair(i, n) ==
    CHOOSE j \in 1..n :
        /\ feature_crosses[j][1] = feature_crosses[i][1]
        /\ feature_crosses[j][2] = feature_crosses[i][2]
        /\ \A k \in 1..n :
              (feature_crosses[k][1] = feature_crosses[i][1]
                 /\ feature_crosses[k][2] = feature_crosses[i][2]) => k <= j

\* the entry of outputs under the key of cross i is the one the pass for
\* cross j built: its two features, its bucket count
EntryBuiltBy(i, j) ==
    /\ DictHas(outputs, KeyOfCross(i))
    /\ LET h == DictGet(outputs, KeyOfCross(i)) IN
       /\ Len(h.inputs) = 2
       /\ h.inputs[1].name = feature_crosses[j][1]
       /\ h.inputs[2].name = feature_crosses[j][2]
       /\ Len(h.layers) >= 1
       /\ h.layers[1].layer = "HashedCrossing"
       /\ h.layers[1].args.num_bins = feature_crosses[j][3]

\* the keys of outputs that are keys of a declared cross, in the order of outputs
CrossEntries == SelectSeq(DictKeys(outputs), LAMBDA k : k \in KeysUpTo(Len(feature_crosses)))

GroupProfiles ==
    { Profile(decl, "categorical_stats", Some(stats)) :
        decl \in {StrDecl(s_float_normalized), OneHotCategorical, StrDecl(s_text),
                  StrDecl(s_date)},
        stats \in {NumericStats, VocabStats(1), DtypeOnlyStats} }

InitGroups ==
    /\ \E n \in 0..MaxFeatures :
         \E ps \in [1..n -> GroupProfiles] : Arguments(ps, DefaultConfig)
    /\ output_mode \in {"concat", "dict"}
    /\ saved = None
    /\ date_in = << >>
    /\ Unbuilt

SpecGroups == InitGroups /\ [][Next]_vars

\* the scheduler has grouped the entries of the current features_dict
Grouped == pc \in {"inputs_wait", "kind_loop", "batch_wait"}

\* the groups of feature_groups that hold an entry
GroupsOf(entry) == { KindNames[k] : k \in { j \in 1..Len(KindNames) : InSeq(entry, groups[j]) } }

\* C33: the scheduler puts each statistics entry in at most one group: the
\* numeric one if the record has a mean; else the categorical one if it has
\* a vocab and the feature is not a declared text feature; else the text one
\* if the feature is a declared text feature; else the date one if it is a
\* declared date feature; else none.  Nothing but the record and the text
\* and date name lists decides.
C33_EntryGroupedByRecordThenName ==
    Grouped =>
        \A i \in 1..Len(FeaturesDict) :
            LET feature_name == FeaturesDict[i][1]
                stats == FeaturesDict[i][2]
                has_mean == "mean" \in DOMAIN stats
                has_vocab == "vocab" \in DOMAIN stats
                is_text == InSeq(feature_name, text_features)
                is_date == InSeq(feature_name, date_features)
                in == GroupsOf(FeaturesDict[i])
            IN /\ Cardinality(in) <= 1
               /\ has_mean => in = {"numeric"}
               /\ (~has_mean /\ has_vocab /\ ~is_text) => in = {"categorical"}
               /\ (~has_mean /\ is_text) => in = {"text"}
               /\ (~has_mean /\ ~has_vocab /\ ~is_text /\ is_date) => in = {"date"}
               /\ (~has_mean /\ ~has_vocab /\ ~is_text /\ ~is_date) => in = {}

\* a declared text feature whose record has a mean is in the numeric group,
\* a declared text feature whose record has a vocab is in the text group
C33_TextWithMeanNumericTextWithVocabText ==
    /\ Grouped
    /\ text_features = <<"age", "city">>
    /\ GroupsOf(<<"age", NumericStats>>) = {"numeric"}
    /\ GroupsOf(<<"city", VocabStats(1)>>) = {"text"}

(***************************************************************************)
(* SpecCategorical: builds of one categorical feature of either lookup     *)
(* subtype, with the embedding, the one-hot or no category encoding, with  *)
(* and without custom steps, alone or followed by a string categorical     *)
(* feature.                                                                *)
(***************************************************************************)
CategoricalProfiles ==
    { Profile(InstanceDecl("CategoricalFeature", t, prep,
                           IF prep = << >> THEN EmptyKw ELSE [num_bins |-> 4], enc),
              "categorical_stats", Some(VocabStats(MaxVocab))) :
        t \in CategoricalTypes,
        prep \in {<< >>, <<"Hashing">>},
        enc \in {"EMBEDDING", "ONE_HOT_ENCODING", ""} }
    \cup { Profile(StrDecl(s_string_categorical), "categorical_stats",
                   Some(VocabStats(MaxVocab))),
           Profile(CustomCategorical, "categorical_stats", Some(VocabStats(MaxVocab))) }

\* one profile, alone or followed by a string categorical feature declared
\* by its type string or as an instance without encoding
InitCategorical ==
    /\ \E first \in CategoricalProfiles :
          \E rest \in { << >>,
                        << Profile(StrDecl(s_string_categorical), "categorical_stats",
                                   Some(VocabStats(1))) >>,
                        << Profile(InstanceDecl("CategoricalFeature", "STRING_CATEGORICAL",
                                                << >>, EmptyKw, ""),
                                   "categorical_stats", Some(VocabStats(1))) >> } :
             Arguments(<< first >> \o rest, DefaultConfig)
    /\ output_mode \in {"concat", "dict"}
    /\ saved = None
    /\ date_in = << >>
    /\ Unbuilt

SpecCategorical == InitCategorical /\ [][Next]_vars

\* the layer classes of a handle's steps, in order
LayerClasses(h) == [i \in 1..Len(h.layers) |-> h.layers[i].layer]

\* the layer classes the claim gives a categorical pipeline: the custom
\* steps if there are any, else the lookup of the subtype; the configured
\* encoding; the flatten step
ClaimedCategoricalClasses(feature) ==
    (IF feature.preprocessors # << >> THEN feature.preprocessors
     ELSE IF feature.feature_type = "STRING_CATEGORICAL" THEN <<"StringLookup">>
     ELSE <<"IntegerLookup">>)
    \o (IF feature.category_encoding = "EMBEDDING" THEN <<"Embedding">>
        ELSE IF feature.category_encoding = "ONE_HOT_ENCODING"
        THEN <<"CategoryEncoding", "cast_to_float32">>
        ELSE << >>)
    \o <<"Flatten">>

\* C34: every pipeline the categorical builder stored ends with a flatten
\* step, for both lookup subtypes, for the embedding, the one-hot and no
\* category encoding, and with custom steps, after which the configured
\* encoding is still applied.
C34_CategoricalPipelineEndsWithFlatten ==
    \A i \in 1..Len(outputs_categorical) :
        LET feature_name == outputs_categorical[i][1]
            h == outputs_categorical[i][2]
        IN InSeq(feature_name, categorical_features)
              => /\ h.layers # << >>
                 /\ h.layers[Len(h.layers)].layer = "Flatten"
                 /\ h.shape = << Product(h.shape) >>
                 /\ LayerClasses(h)
                      = ClaimedCategoricalClasses(DictGet(features_specs, feature_name))

\* a build has ended with an integer categorical feature with a custom step
\* and the one-hot encoding and a string categorical feature without
\* encoding, both flattened
C34_CustomOneHotAndPlainLookupFlattened ==
    /\ pc = "done"
    /\ Len(outputs_categorical) = 2
    /\ LayerClasses(DictGet(outputs_categorical, "age"))
         = <<"Hashing", "CategoryEncoding", "cast_to_float32", "Flatten">>
    /\ DictGet(features_specs, "age").feature_type = "INTEGER_CATEGORICAL"
    /\ LayerClasses(DictGet(outputs_categorical, "city")) = <<"StringLookup", "Flatten">>

(***************************************************************************)
(* Properties of the text builder.                                         *)
(***************************************************************************)
\* this step is a run of _add_pipeline_text for a feature that stored its
\* handle: by a worker of the text batch, or by the text loop
TextBuilderStored(feature_name) ==
    \/ /\ pc = "batch_wait"
       /\ \E i \in 1..Len(tasks) :
             /\ tasks[i].kind = "text"
             /\ tasks[i].feature = feature_name
             /\ tasks[i].status = "pending"
             /\ tasks'[i].status = "done"
    \/ /\ pc = "text_loop"
       /\ idx <= Len(text_features)
       /\ text_features[idx] = feature_name
       /\ idx' = idx + 1

\* the map a text handle is stored in, the other map
TextMap(outs, outs_cat) == IF output_mode = "concat" THEN outs_cat ELSE outs
OtherMap(outs, outs_cat) == IF output_mode = "concat" THEN outs ELSE outs_cat

\* C35: each run of the text builder stores the handle of its feature in
\* outputs_categorical when the output mode is CONCAT and in outputs
\* otherwise, and leaves the other map as it is; at no point of a build is a
\* text feature in both maps.
C35_TextHandleInOneMapByMode ==
    /\ [](\A i \in 1..Len(text_features) :
             ~(DictHas(outputs, text_features[i])
                 /\ DictHas(outputs_categorical, text_features[i])))
    /\ [][\A i \in 1..Len(text_features) :
             TextBuilderStored(text_features[i])
                => /\ DictHas(TextMap(outputs', outputs_categorical'), text_features[i])
                   /\ DictGet(TextMap(outputs', outputs_categorical'), text_features[i]).inputs
                        = << DictGet(inputs', text_features[i]) >>
                   /\ OtherMap(outputs', outputs_categorical')
                        = OtherMap(outputs, outputs_categorical)]_vars

\* a CONCAT build with a text feature built by the text batch and again by
\* the text loop has ended: its handle is in outputs_categorical alone
C35_TextBuiltTwiceInCategoricalMapOnly ==
    /\ pc = "done"
    /\ output_mode = "concat"
    /\ InSeq("note", text_features)
    /\ DictGet(inputs, "note").gen = 2
    /\ DictHas(outputs_categorical, "note")
    /\ ~DictHas(outputs, "note")

(***************************************************************************)
(* Properties of the placeholders.                                         *)
(***************************************************************************)
\* the handles of the two output maps
OutputHandles == SeqToSet(DictValues(outputs)) \cup SeqToSet(DictValues(outputs_categorical))

\* C36 as claimed: after a successful build every output handle was built
\* from the placeholders inputs stores for its features, and every feature's
\* placeholder was created once in the build: none was replaced under its
\* name after a pipeline had consumed it.
C36_PlaceholderCreatedOncePerBuild ==
    pc = "done"
        => /\ \A h \in OutputHandles : Connected(inputs, h)
           /\ \A i \in 1..Len(inputs) : inputs[i][2].gen = 1

\* a build with a text feature that has a statistics entry and a cross over
\* it: the cross consumed the placeholder the scheduler made, the text loop
\* replaced it, and the model raised "Graph disconnected"
C36_CrossDisconnectedByTextLoop ==
    /\ pc = "failed"
    /\ feature_crosses = << <<"age", "note", 10>> >>
    /\ TheVal(raised).type = "ValueError"
    /\ TheVal(raised).key = <<"Graph disconnected">>
    /\ DictGet(outputs, "age_x_note").inputs[2].gen = 1
    /\ DictGet(inputs, "note").gen = 2
    /\ ~Connected(inputs, DictGet(outputs, "age_x_note"))

\* C37 as claimed: after a successful build every feature that has an input
\* placeholder has an output handle in outputs or in outputs_categorical.
C37_EveryPlaceholderHasPipeline ==
    pc = "done"
        => \A i \in 1..Len(inputs) :
              \/ DictHas(outputs, inputs[i][1])
              \/ DictHas(outputs_categorical, inputs[i][1])

\* a build has ended in which the statistics entry of the categorical
\* feature city holds a dtype only: the entry went to no group, city has a
\* placeholder and a signature entry, which the model takes as an input, and
\* no pipeline
C37_PlaceholderWithoutPipelineInModel ==
    /\ pc = "done"
    /\ feature_crosses = << >>
    /\ InSeq("city", categorical_features)
    /\ DictGet(DictGet(features_stats, "categorical_stats"), "city") = DtypeOnlyStats
    /\ DictHas(inputs, "city")
    /\ DictHas(signature, "city")
    /\ DictHas(TheVal(model).inputs, "city")
    /\ ~DictHas(outputs, "city")
    /\ ~DictHas(outputs_categorical, "city")

\* C38: whenever build_preprocessor has returned, signature and inputs have
\* the same keys and each signature entry has the dtype of the placeholder
\* under its key, whichever stage created the placeholder.
C38_SignatureMatchesInputsOnReturn ==
    pc = "done"
        => /\ DictKeySet(signature) = DictKeySet(inputs)
           /\ \A i \in 1..Len(inputs) :
                 /\ DictHas(signature, inputs[i][1])
                 /\ DictGet(signature, inputs[i][1]) = inputs[i][2].dtype

\* a build has returned with a placeholder made by the scheduler alone
\* (age), one replaced by the text loop (note) and one made by the date
\* loop alone (day), each with its signature entry
C38_SchedulerTextAndDatePlaceholders ==
    /\ pc = "done"
    /\ DictKeys(inputs) = <<"age", "city", "note", "day">>
    /\ DictGet(inputs, "age").gen = 1
    /\ DictGet(inputs, "note").gen = 2
    /\ ~HasStatsEntry("day")
    /\ DictGet(signature, "age") = "float32"
    /\ DictGet(signature, "note") = "string"
    /\ DictGet(signature, "day") = "string"

(***************************************************************************)
(* SpecOverwrite: constructions with supplied statistics, with and without *)
(* overwrite_stats, of two, one or none of the features the statistics     *)
(* describe; the statistics the collaborator would compute differ from the *)
(* supplied ones.                                                          *)
(***************************************************************************)
InitOverwrite ==
    /\ \E ps \in [1..MaxFeatures ->
                    { Profile(StrDecl(s_float_normalized), "numeric_stats", Some(NumericStats)),
                      Profile(OneHotCategorical, "categorical_stats", Some(VocabStats(1))) }] :
          \E declared \in 0..MaxFeatures :
             /\ specs_arg = SpecsOf(SubSeq(ps, 1, declared))
             /\ stats_arg = AssembleStats(ps, 1)
    /\ computed_stats = << <<"numeric_stats", << <<"age", OtherNumericStats>> >> >> >>
    /\ feature_crosses = << >>
    /\ overwrite_stats \in BOOLEAN
    /\ use_caching = TRUE
    /\ transfo_nr_blocks = 0
    /\ transfo_placement = "categorical"
    /\ output_mode \in {"concat", "dict"}
    /\ saved = None
    /\ date_in = << >>
    /\ Unbuilt

SpecOverwrite == InitOverwrite /\ [][Next]_vars

\* build_preprocessor was called on an orchestrator constructed with
\* non-empty statistics and overwrite_stats
BuildWithOverwrite == BuildCalled /\ stats_arg # EmptyDict /\ overwrite_stats

\* the build raised e, or is about to, with nothing computed and nothing built
FailedWith(e) ==
    /\ pc \in {"except", "failed"}
    /\ CurrentExc = Some(e)
    /\ ~stats_instance
    /\ features_stats = stats_arg
    /\ inputs = EmptyDict
    /\ outputs = EmptyDict
    /\ outputs_categorical = EmptyDict
    /\ result = None

\* C39 as claimed: with non-empty supplied statistics and overwrite_stats,
\* build_preprocessor always fails with the stats-instance-not-initialized
\* error and never recomputes the statistics.
C39_OverwriteAlwaysFailsWithoutCollaborator ==
    BuildWithOverwrite => FailedWith(NoStatsInstanceError)

\* C39: with non-empty supplied statistics and overwrite_stats,
\* build_preprocessor always fails and never recomputes the statistics:
\* with the no-features error when no feature is declared, with the
\* stats-instance-not-initialized error otherwise.
C39_OverwriteFailsBeforeRecomputing ==
    BuildWithOverwrite
        => FailedWith(IF features_specs = EmptyDict THEN NoFeaturesError
                      ELSE NoStatsInstanceError)

\* a build of two declared features with supplied statistics and
\* overwrite_stats has raised the stats-instance error; the statistics are
\* the supplied ones, not the ones the collaborator would compute
C39_OverwriteOfSuppliedStatisticsFailed ==
    /\ pc = "failed"
    /\ overwrite_stats
    /\ Len(features_specs) = MaxFeatures
    /\ stats_arg # EmptyDict
    /\ raised = Some(NoStatsInstanceError)
    /\ features_stats = stats_arg
    /\ features_stats # computed_stats

(***************************************************************************)
(* SpecMemo: calls of _get_cached_or_process before and after a build,     *)
(* with and without caching; the value a call's processor returns stands   *)
(* for the processor function and the arguments passed.                    *)
(***************************************************************************)
InitMemo ==
    /\ \E ps \in { << Profile(StrDecl(s_float_normalized), "numeric_stats",
                                Some(NumericStats)),
                        Profile(OneHotCategorical, "categorical_stats",
                                Some(VocabStats(1))) >>,
                     << Profile(StrDecl(s_float_normalized), "numeric_stats",
                                Some(NumericStatsNoVar)) >> } :
          \E caching \in BOOLEAN :
             Arguments(ps, [DefaultConfig EXCEPT !.caching = caching])
    /\ output_mode \in {"concat", "dict"}
    /\ saved = None
    /\ date_in = << >>
    /\ Unbuilt

NextMemo ==
    \/ Next
    \/ \E feature_name \in DictKeySet(features_specs) :
         \E processed \in ProcessedValues : GetCachedOrProcessCall(feature_name, processed)

SpecMemo == InitMemo /\ [][NextMemo]_vars

\* the calls made so far for a feature name, in order
CallsFor(feature_name) ==
    SelectSeq(memo_calls, LAMBDA c : c.feature_name = feature_name)

\* the first call for a name invoked its processor and returned its value,
\* every later call for the name returned that value without invoking its own
FirstProcessedLaterStored(calls) ==
    \A k \in 1..Len(calls) :
        IF k = 1
        THEN calls[k].invoked /\ calls[k].returned = calls[k].processed
        ELSE ~calls[k].invoked /\ calls[k].returned = calls[1].returned

\* every call invoked its processor and returned its value
AlwaysProcessed(calls) ==
    \A k \in 1..Len(calls) : calls[k].invoked /\ calls[k].returned = calls[k].processed

\* what is stored under a name: None when nothing is
Stored(cache, feature_name) ==
    IF IsSome(cache) /\ DictHas(TheVal(cache), feature_name)
    THEN Some(DictGet(TheVal(cache), feature_name))
    ELSE None

\* C40 as claimed: with caching, the first call for a name invokes the
\* processor and stores its result and every later call for the name returns
\* the stored result without invoking the processor; without caching every
\* call invokes the processor and nothing is stored.
C40_EveryLaterCallReturnsStored ==
    \A feature_name \in DictKeySet(features_specs) :
        IF use_caching
        THEN FirstProcessedLaterStored(CallsFor(feature_name))
        ELSE AlwaysProcessed(CallsFor(feature_name)) /\ preprocessed_cache = None

\* C40: the memo is keyed by the feature name alone.  With caching, a call
\* for a name that has no stored result invokes the processor, stores and
\* returns its result; a call for a name that has one returns it without
\* invoking the processor and leaves the memo as it is, whatever processor
\* is passed; so until a build empties the memo the first call for a name
\* processes and every later one returns the stored result.  Without
\* caching every call invokes the processor and nothing is stored.
C40_CallKeyedByNameUntilCleanup ==
    /\ [](pc = "idle" =>
            \A feature_name \in DictKeySet(features_specs) :
                IF use_caching
                THEN FirstProcessedLaterStored(CallsFor(feature_name))
                ELSE AlwaysProcessed(CallsFor(feature_name)))
    /\ [](~use_caching => (preprocessed_cache = None /\ AlwaysProcessed(memo_calls)))
    /\ [][Len(memo_calls') = Len(memo_calls) + 1 =>
            LET call == memo_calls'[Len(memo_calls')]
                before == Stored(preprocessed_cache, call.feature_name)
            IN /\ use_caching /\ IsSome(before)
                    => /\ ~call.invoked
                       /\ call.returned = TheVal(before)
                       /\ preprocessed_cache' = preprocessed_cache
               /\ use_caching /\ IsNone(before)
                    => /\ call.invoked
                       /\ call.returned = call.processed
                       /\ Stored(preprocessed_cache', call.feature_name)
                            = Some(call.processed)
                       /\ \A other \in DictKeySet(features_specs) \ {call.feature_name} :
                             Stored(preprocessed_cache', other)
                                = Stored(preprocessed_cache, other)]_vars

\* with caching, a second call for age with another processor returned the
\* value of the first one without invoking its own
C40_SecondCallReturnedFirstValue ==
    /\ use_caching
    /\ pc = "idle"
    /\ Len(memo_calls) = 2
    /\ memo_calls[1].feature_name = "age"
    /\ memo_calls[2].feature_name = "age"
    /\ memo_calls[2].processed # memo_calls[1].processed
    /\ ~memo_calls[2].invoked
    /\ memo_calls[2].returned = memo_calls[1].processed
    /\ preprocessed_cache = Some(<< <<"age", memo_calls[1].processed>> >>)

=============================================================================
